---------------------------- MODULE Spec2Model ----------------------------
(***************************************************************************)
(* A model of the commercial-invoice generator: the purchase-order (PO)    *)
(* parser (src/generator/po_parser.py), the SKU master lookup              *)
(* (src/generator/sku_master.py), invoice validation                       *)
(* (src/generator/ci_generator.py) and the invoice history / sequence      *)
(* numbering (src/generator/data_store.py, src/app.py).                    *)
(*                                                                         *)
(* Text is modelled by TLA+ strings, on which TLC evaluates Len, SubSeq    *)
(* and \o.  Non-ASCII literals of the source are written as their code     *)
(* points, "#XXXX" per character (hexadecimal digits only, so that they    *)
(* contain no candidate column name and are left alone by upper()).        *)
(***************************************************************************)
EXTENDS Integers, Sequences, FiniteSets, TLC

VARIABLES
    pc,          \* position of the operation in progress
    columns,     \* find_column: the header's column names
    candidates,  \* find_column: the ordered candidate list
    result,      \* find_column: the returned column (None or Some)
    given,       \* a function applied on its own: its argument
    returned,    \* a function applied on its own: what it returned
    stream,      \* parse: the byte buffer given (its position, and the
                 \* seeks and reads made on it)
    draft,       \* validate: the InvoiceData given
    valid,       \* validate: the returned flag
    errors,      \* validate: the returned list of messages
    book,        \* generate: the workbook it has made (None: none)
    flows,       \* the invoice flows of two sessions on one history file:
                 \* for each its position and what it has read
    history,     \* DataStore: the content of invoice_history.json
    issued,      \* every invoice issued so far, oldest first (a record of
                 \* the run, not a field of the program)
    gens,        \* the number of invoices generated in this run
    file,        \* parse: the workbook given (its sheets, as pandas reads them)
    options,     \* parse: the options given
    sku_df,      \* SKUMaster._df: None, or the loaded table
    loc,         \* parse: its local variables
    items,       \* parse: the item list it returns
    messages,    \* parse: the message list it returns
    scan,        \* parse_multiple_sheets: its local variables
    sku_source,  \* SKUMaster._source
    load,        \* SKUMaster.load_from_*: the call in progress
    call         \* a call that only reads (SKUMaster.search, get_by_*)

vars == <<pc, columns, candidates, result, given, returned, stream, draft, valid, errors, book, flows, history, issued,
          gens, file, options, sku_df, loc, items, messages, scan,
          sku_source, load, call>>

fcVars == <<columns, candidates, result, given, returned, stream>>
valVars == <<draft, valid, errors, book>>
histVars == <<history, issued, gens, flows>>
parseVars == <<file, options, sku_df, loc, items, messages, scan>>
poVars == <<file, options, loc, items, messages, scan>>
masterVars == <<sku_source, load, call>>

\* ------------------------------------------------------------------ bounds

\* the largest number of header columns given to find_column
MaxCols == 2
\* the largest number of line items of an invoice draft
MaxItems == 2
\* the largest number of invoices generated in one run
MaxGen == 3
\* the largest number of data rows of a PO sheet
MaxRows == 2

\* ------------------------------------------------------------ Python text

\* Optional[...]: None, or one value
None == <<>>
Some(x) == <<x>>
IsSome(o) == o # <<>>
The(o) == o[1]

Char(s, i) == SubSeq(s, i, i)

LowerAlphabet == "abcdefghijklmnopqrstuvwxyz"
UpperAlphabet == "ABCDEFGHIJKLMNOPQRSTUVWXYZ"

\* str.upper() on one character
LowerToUpper ==
    [c \in {Char(LowerAlphabet, i) : i \in 1..26} |->
        Char(UpperAlphabet, CHOOSE i \in 1..26 : Char(LowerAlphabet, i) = c)]
UpperChar(c) == IF c \in DOMAIN LowerToUpper THEN LowerToUpper[c] ELSE c

RECURSIVE Upper(_)
\* str.upper()
Upper(s) ==
    IF Len(s) = 0 THEN ""
    ELSE UpperChar(Char(s, 1)) \o Upper(SubSeq(s, 2, Len(s)))

IsSpace(c) == c \in {" ", "\t", "\n"}

RECURSIVE LStrip(_)
LStrip(s) ==
    IF Len(s) = 0 THEN ""
    ELSE IF IsSpace(Char(s, 1)) THEN LStrip(SubSeq(s, 2, Len(s)))
    ELSE s

RECURSIVE RStrip(_)
RStrip(s) ==
    IF Len(s) = 0 THEN ""
    ELSE IF IsSpace(Char(s, Len(s))) THEN RStrip(SubSeq(s, 1, Len(s) - 1))
    ELSE s

\* str.strip()
Strip(s) == RStrip(LStrip(s))

\* needle in hay (Python's substring test)
Contains(hay, needle) ==
    \E i \in 1..(Len(hay) - Len(needle) + 1) :
        SubSeq(hay, i, i + Len(needle) - 1) = needle

\* str.startswith
StartsWith(s, prefix) ==
    /\ Len(prefix) <= Len(s)
    /\ SubSeq(s, 1, Len(prefix)) = prefix

\* ------------------------------------------------- POParser: candidates

SKU_COLUMN_CANDIDATES ==
    <<"SKU ID", "SKU_ID", "SKUID", "SKU", "ITEM CODE", "ITEM_CODE">>

QTY_COLUMN_CANDIDATES ==
    <<"TOTAL PRODUCT QTY", "ORDER QUANTITIES", "ORDER QTY", "QTY", "QUANTITY",
      "#C218#B7C9">>

NAME_EN_COLUMN_CANDIDATES ==
    <<"Product Name_EN", "PRODUCT NAME_EN", "ENGLISH NAME", "DESCRIPTION_EN",
      "PRODUCT NAME", "DESCRIPTION">>

NAME_KR_COLUMN_CANDIDATES ==
    <<"Product Name_KR", "PRODUCT NAME_KR", "#C0C1#D488#BA85", "KOREAN NAME",
      "ITEM NAME">>

BARCODE_COLUMN_CANDIDATES == <<"GTIN-8 CODE", "BARCODE", "EAN", "UPC">>

PRICE_COLUMN_CANDIDATES ==
    <<"Supply Price", "SUPPLY PRICE", "FOB", "UNIT PRICE", "PRICE",
      "#B2E8#AC00", "#ACF5#AE09#AC00", "FOB PRICE">>

AMOUNT_COLUMN_CANDIDATES ==
    <<"AMOUNT", "TOTAL AMOUNT", "AMOUNT(KRW)", "AMOUNT (KRW)", "AMOUNT(USD)",
      "AMOUNT (USD)", "#AE08#C561", "TOTAL">>

CURRENCY_COLUMN_CANDIDATES == <<"CURRENCY", "#D1B5#D654", "CURR">>

HS_CODE_COLUMN_CANDIDATES ==
    <<"HS CODE", "HS_CODE", "HSCODE", "HS CODE(TARIFF)", "TARIFF CODE">>

\* ------------------------------------------------ POParser.find_column

\* columns_upper = {c.upper().strip(): c for c in columns}: an insertion-
\* ordered dict, as a sequence of <<key, value>>; a repeated key keeps its
\* first position and takes the last value.
RECURSIVE DictPut(_, _, _)
DictPut(d, k, v) ==
    IF d = <<>> THEN <<(<<k, v>>)>>
    ELSE IF d[1][1] = k THEN <<(<<k, v>>)>> \o Tail(d)
    ELSE <<d[1]>> \o DictPut(Tail(d), k, v)

RECURSIVE ColumnsUpperFrom(_, _)
ColumnsUpperFrom(d, cols) ==
    IF cols = <<>> THEN d
    ELSE ColumnsUpperFrom(DictPut(d, Strip(Upper(cols[1])), cols[1]), Tail(cols))

ColumnsUpper(cols) == ColumnsUpperFrom(<<>>, cols)

DictHas(d, k) == \E i \in 1..Len(d) : d[i][1] = k
DictGet(d, k) == d[CHOOSE i \in 1..Len(d) : d[i][1] = k][2]

\* the first column (in dict order) whose key contains the candidate
PartialHits(d, cand) == {i \in 1..Len(d) : Contains(d[i][1], cand)}
FirstPartial(d, cand) ==
    d[CHOOSE i \in PartialHits(d, cand) : \A j \in PartialHits(d, cand) : i <= j][2]

RECURSIVE FindColumnFrom(_, _)
\* the loop over the candidates: for each, the exact test and then the
\* partial test, before the next candidate is tried
FindColumnFrom(d, cands) ==
    IF cands = <<>> THEN None
    ELSE LET candidate_upper == Strip(Upper(cands[1])) IN
         IF DictHas(d, candidate_upper) THEN Some(DictGet(d, candidate_upper))
         ELSE IF PartialHits(d, candidate_upper) # {}
              THEN Some(FirstPartial(d, candidate_upper))
         ELSE FindColumnFrom(d, Tail(cands))

find_column(cols, cands) == FindColumnFrom(ColumnsUpper(cols), cands)

\* ------------------------------------------------ find_column, on its own

\* header names given to find_column
ColumnNames ==
    {"QTY(OUTBOX)", "QUANTITY", "Qty ", "TOTAL QTY", "Order Qty", "SKU ID",
     "AMOUNT(KRW)", "TOTAL AMOUNT", "Total", "NOTE", "HS CODE(TARIFF)"}

CandidateLists ==
    {SKU_COLUMN_CANDIDATES, QTY_COLUMN_CANDIDATES, AMOUNT_COLUMN_CANDIDATES,
     HS_CODE_COLUMN_CANDIDATES, <<"QTY", "TOTAL QTY">>}

ColumnLists ==
    UNION {[1..n -> ColumnNames] : n \in 0..MaxCols}

\* the variables of the other operations, at rest
FnIdle == given = <<>> /\ returned = <<>> /\ stream = <<>>
FCIdle == columns = <<>> /\ candidates = <<>> /\ result = None /\ FnIdle
ValIdle == draft = <<>> /\ valid = FALSE /\ errors = <<>> /\ book = <<>>
HistIdle == history = <<>> /\ issued = <<>> /\ gens = 0 /\ flows = <<>>
ParseIdle ==
    /\ file = <<>> /\ options = <<>> /\ sku_df = None
    /\ loc = <<>> /\ items = <<>> /\ messages = <<>> /\ scan = <<>>
PoIdle ==
    /\ file = <<>> /\ options = <<>>
    /\ loc = <<>> /\ items = <<>> /\ messages = <<>> /\ scan = <<>>
MasterIdle == sku_source = "" /\ load = <<>> /\ call = <<>>

FCInit ==
    /\ pc = "find_column"
    /\ columns \in ColumnLists
    /\ candidates \in CandidateLists
    /\ result = None
    /\ FnIdle
    /\ ValIdle /\ HistIdle /\ ParseIdle /\ MasterIdle

FindColumn ==
    /\ pc = "find_column"
    /\ result' = find_column(columns, candidates)
    /\ pc' = "find_column:returned"
    /\ UNCHANGED <<columns, candidates, given, returned, stream>>
    /\ UNCHANGED <<valVars, histVars, parseVars, masterVars>>

FCNext == FindColumn

SpecFindColumn == FCInit /\ [][FCNext]_vars

\* C1: find_column prefers an exact match over a partial one: when some
\* column equals a candidate (ignoring case and surrounding whitespace) the
\* result is the column equal to the highest-priority such candidate; a
\* column that only contains a candidate is returned only when no candidate
\* has an exact match; with neither kind of hit the result is None.
Norm(s) == Strip(Upper(s))
ExactCandidates ==
    {i \in 1..Len(candidates) :
        \E j \in 1..Len(columns) : Norm(columns[j]) = Norm(candidates[i])}
PartialCandidates ==
    {i \in 1..Len(candidates) :
        \E j \in 1..Len(columns) : Contains(Norm(columns[j]), Norm(candidates[i]))}
MinOf(S) == CHOOSE i \in S : \A j \in S : i <= j
C1_ExactBeforePartial ==
    pc = "find_column:returned" =>
        /\ ExactCandidates # {} =>
              /\ IsSome(result)
              /\ Norm(The(result)) = Norm(candidates[MinOf(ExactCandidates)])
        /\ (ExactCandidates = {} /\ PartialCandidates # {}) =>
              /\ IsSome(result)
              /\ \E i \in PartialCandidates :
                    Contains(Norm(The(result)), Norm(candidates[i]))
        /\ PartialCandidates = {} => result = None

\* ------------------------------------------------- CIGenerator.validate

\* an entry of the error list: the rule, and the item's number (0: none)
Err(rule, i) == <<rule, i>>

RECURSIVE ItemErrors(_, _)
\* the loop over the items, numbered from i
ItemErrors(item_list, i) ==
    IF item_list = <<>> THEN <<>>
    ELSE LET item == item_list[1] IN
         (IF item.sku_id = "" THEN <<Err("item_sku", i)>> ELSE <<>>)
         \o (IF item.description = "" THEN <<Err("item_description", i)>> ELSE <<>>)
         \o (IF item.qty <= 0 THEN <<Err("item_qty", i)>> ELSE <<>>)
         \o ItemErrors(Tail(item_list), i + 1)

\* the receiver's checks: an if / elif / elif chain
ReceiverErrors(data) ==
    IF data.receiver = None THEN <<Err("receiver_info", 0)>>
    ELSE IF The(data.receiver).company_name = "" THEN <<Err("receiver_company", 0)>>
    ELSE IF The(data.receiver).address = "" THEN <<Err("receiver_address", 0)>>
    ELSE <<>>

\* CIGenerator.validate: the error list
ValidateErrors(data) ==
    (IF data.invoice_no = "" THEN <<Err("invoice_no", 0)>> ELSE <<>>)
    \o (IF data.invoice_date = None THEN <<Err("invoice_date", 0)>> ELSE <<>>)
    \o (IF data.staff_email = "" THEN <<Err("staff_email", 0)>> ELSE <<>>)
    \o ReceiverErrors(data)
    \o (IF data.currency \notin {"KRW", "USD", "EUR"}
        THEN <<Err("currency", 0)>> ELSE <<>>)
    \o (IF data.items = <<>> THEN <<Err("items", 0)>>
        ELSE ItemErrors(data.items, 1))

\* invoice drafts given to validate
DraftItems ==
    [sku_id : {"", "BIO-001"}, description : {"", "Toner Pads"}, qty : {-1, 0, 2}]
DraftItemLists == UNION {[1..n -> DraftItems] : n \in 0..MaxItems}
Receivers ==
    {None} \cup {Some(r) : r \in [company_name : {"", "SokoGlam"},
                                   address : {"", "New York"}]}
Drafts ==
    [invoice_no : {"", "INVSK250101-1"},
     invoice_date : {None, Some("2025-01-01")},
     staff_email : {"", "staff@example.com"},
     receiver : Receivers,
     currency : {"KRW", "USD", "EUR", "JPY"},
     items : DraftItemLists]

ValInit ==
    /\ pc = "validate"
    /\ draft \in Drafts
    /\ valid = FALSE
    /\ errors = <<>>
    /\ book = None
    /\ FCIdle /\ HistIdle /\ ParseIdle /\ MasterIdle

Validate ==
    /\ pc = "validate"
    /\ errors' = ValidateErrors(draft)
    /\ valid' = (Len(ValidateErrors(draft)) = 0)
    /\ pc' = "validate:returned"
    /\ UNCHANGED <<draft, book>>
    /\ UNCHANGED <<fcVars, histVars, parseVars, masterVars>>

ValNext == Validate

SpecValidate == ValInit /\ [][ValNext]_vars

\* C3: validate returns the full list of violated rules: the error list has
\* an entry for each violated mandatory rule, and the flag is true iff no
\* rule is violated.  ("Receiver info is required" is taken to report both
\* receiver rules when there is no receiver at all.)
Violated(cond, rule) == IF cond THEN {rule} ELSE {}
ViolatedRules(data) ==
    Violated(data.invoice_no = "", Err("invoice_no", 0))
    \cup Violated(data.invoice_date = None, Err("invoice_date", 0))
    \cup Violated(data.staff_email = "", Err("staff_email", 0))
    \cup Violated(data.receiver = None \/ The(data.receiver).company_name = "",
                  Err("receiver_company", 0))
    \cup Violated(data.receiver = None \/ The(data.receiver).address = "",
                  Err("receiver_address", 0))
    \cup Violated(data.currency \notin {"KRW", "USD", "EUR"}, Err("currency", 0))
    \cup Violated(Len(data.items) = 0, Err("items", 0))
    \cup {Err("item_sku", i) :
             i \in {j \in 1..Len(data.items) : data.items[j].sku_id = ""}}
    \cup {Err("item_description", i) :
             i \in {j \in 1..Len(data.items) : data.items[j].description = ""}}
    \cup {Err("item_qty", i) :
             i \in {j \in 1..Len(data.items) : data.items[j].qty <= 0}}
Reports(entry, rule) ==
    \/ entry = rule
    \/ entry = Err("receiver_info", 0)
         /\ rule \in {Err("receiver_company", 0), Err("receiver_address", 0)}
C3_AllViolationsReported ==
    pc = "validate:returned" =>
        /\ \A rule \in ViolatedRules(draft) :
              \E i \in 1..Len(errors) : Reports(errors[i], rule)
        /\ valid <=> ViolatedRules(draft) = {}

\* ------------------------------------- DataStore: the invoice history

\* "최대 500개까지만 유지": the number of history entries kept
HistoryCap == 500

Digits == "0123456789"
IsDigit(c) == \E i \in 1..10 : Char(Digits, i) = c
DigitValue(c) == (CHOOSE i \in 1..10 : Char(Digits, i) = c) - 1

RECURSIVE NatToStr(_)
\* str() of a natural number: decimal, no padding
NatToStr(n) ==
    IF n < 10 THEN Char(Digits, n + 1)
    ELSE NatToStr(n \div 10) \o Char(Digits, (n % 10) + 1)

\* the "%02d" of strftime
Pad2(n) == Char(Digits, ((n \div 10) % 10) + 1) \o Char(Digits, (n % 10) + 1)

\* date.strftime('%y%m%d'): the year without its century
DateStr(date) == Pad2(date.y % 100) \o Pad2(date.m) \o Pad2(date.d)

\* CIGenerator.generate_invoice_number
generate_invoice_number(customer_code, date, sequence) ==
    "INV" \o Upper(customer_code) \o DateStr(date) \o "-" \o NatToStr(sequence)

RECURSIVE AfterLastHyphen(_)
\* inv_no.split('-')[-1]
AfterLastHyphen(s) ==
    IF \E i \in 1..Len(s) : Char(s, i) = "-"
    THEN AfterLastHyphen(
             SubSeq(s, (CHOOSE i \in 1..Len(s) :
                           /\ Char(s, i) = "-"
                           /\ \A j \in 1..(i - 1) : Char(s, j) # "-") + 1, Len(s)))
    ELSE s

RECURSIVE DigitsValue(_, _)
DigitsValue(s, acc) ==
    IF Len(s) = 0 THEN acc
    ELSE DigitsValue(SubSeq(s, 2, Len(s)), 10 * acc + DigitValue(Char(s, 1)))

AllDigits(s) == Len(s) > 0 /\ \A i \in 1..Len(s) : IsDigit(Char(s, i))

\* int(text): surrounding whitespace and one sign are accepted; None stands
\* for ValueError.  (Digit-group underscores are not modelled.)
ParseInt(text) ==
    LET t == Strip(text)
        signed == Len(t) > 0 /\ Char(t, 1) \in {"+", "-"}
        body == IF signed THEN SubSeq(t, 2, Len(t)) ELSE t
    IN IF ~AllDigits(body) THEN None
       ELSE IF signed /\ Char(t, 1) = "-" THEN Some(0 - DigitsValue(body, 0))
       ELSE Some(DigitsValue(body, 0))

\* the entries the loop of get_next_sequence takes into account: the invoice
\* number starts with the prefix and its last field parses as an integer
SequenceOf(entry) == ParseInt(AfterLastHyphen(entry.invoice_no))
Counted(h, prefix) ==
    {i \in 1..Len(h) :
        StartsWith(h[i].invoice_no, prefix) /\ IsSome(SequenceOf(h[i]))}

\* max_seq after the loop: the running maximum, from 0
MaxSeq(h, prefix) ==
    LET seqs == {The(SequenceOf(h[i])) : i \in Counted(h, prefix)} \cup {0}
    IN CHOOSE m \in seqs : \A n \in seqs : n <= m

\* a next sequence that numbers the counted entries instead of taking the
\* largest of their sequences
get_next_sequence_counting(h, customer_code, date) ==
    Cardinality(Counted(h, "INV" \o Upper(customer_code) \o DateStr(date) \o "-")) + 1

\* DataStore.get_next_sequence
get_next_sequence(h, customer_code, date) ==
    MaxSeq(h, "INV" \o Upper(customer_code) \o DateStr(date) \o "-") + 1

\* a history that keeps its first HistoryCap entries
add_invoice_history_keeping_oldest(h, invoice_info) ==
    LET appended == Append(h, invoice_info) IN
    IF Len(appended) > HistoryCap THEN SubSeq(appended, 1, HistoryCap)
    ELSE appended

\* DataStore.add_invoice_history: append, keep the last HistoryCap entries
add_invoice_history(h, invoice_info) ==
    LET appended == Append(h, invoice_info) IN
    IF Len(appended) > HistoryCap
    THEN SubSeq(appended, Len(appended) - HistoryCap + 1, Len(appended))
    ELSE appended

\* render_invoice_items: "customer_code if customer_code else 'XX'"
CodeOrXX(customer_code) == IF customer_code = "" THEN "XX" ELSE customer_code

\* the history entry that render_invoice_items records (its total, currency,
\* item_count and created_at are read by no operation modelled here)
HistoryEntry(customer_code, date, seq) ==
    [invoice_no |-> generate_invoice_number(CodeOrXX(customer_code), date, seq),
     customer_code |-> CodeOrXX(customer_code),
     date |-> date]

\* the customer codes and invoice dates entered in the form
CustomerCodes == {"sk", "OT", ""}
InvoiceDates == {[y |-> 2025, m |-> 1, d |-> 1], [y |-> 2025, m |-> 11, d |-> 4]}

\* A history file left by earlier sessions: one invoice for "sk", then
\* invoices for "OT" until the file is two entries short of its cap.
EarlierDate == [y |-> 2025, m |-> 1, d |-> 1]
EarlierHistory ==
    <<HistoryEntry("sk", EarlierDate, 1)>>
    \o [i \in 1..(HistoryCap - 2) |-> HistoryEntry("OT", EarlierDate, i)]

IssuedRecord(entry, seq) ==
    [customer_code |-> entry.customer_code, date |-> entry.date,
     sequence |-> seq, invoice_no |-> entry.invoice_no]

HistInit ==
    /\ pc = "form"
    /\ history \in {<<>>, EarlierHistory}
    /\ issued = [i \in 1..Len(history) |->
                    IssuedRecord(history[i], IF i = 1 THEN 1 ELSE i - 1)]
    /\ gens = 0
    /\ flows = <<>>
    /\ FCIdle /\ ValIdle /\ ParseIdle /\ MasterIdle

\* render_invoice_items, the "CI 생성" button with a draft that generate
\* accepts: the next sequence, the invoice number, the history entry
GenerateInvoice(customer_code, date) ==
    /\ pc = "form"
    /\ gens < MaxGen
    /\ gens' = gens + 1
    /\ UNCHANGED flows
    /\ LET seq == get_next_sequence(history, CodeOrXX(customer_code), date)
           entry == HistoryEntry(customer_code, date, seq)
       IN /\ history' = add_invoice_history(history, entry)
          /\ issued' = Append(issued, IssuedRecord(entry, seq))
    /\ UNCHANGED pc
    /\ UNCHANGED <<fcVars, valVars, parseVars, masterVars>>

HistNext ==
    \E customer_code \in CustomerCodes, date \in InvoiceDates :
        GenerateInvoice(customer_code, date)

SpecHistory == HistInit /\ [][HistNext]_vars

\* C4: over any sequence of successful invoice generations the sequence
\* numbers issued for one (customer code, date) are strictly increasing, so
\* that no invoice number is issued twice, also once add_invoice_history has
\* truncated the history to its cap.  (Stated of the invoice issued last
\* against every earlier one: as an invariant it covers every pair.)
SameCustomerAndDate(a, b) ==
    Upper(a.customer_code) = Upper(b.customer_code) /\ a.date = b.date
C4_SequenceStrictlyIncreasing ==
    \A i \in 1..(Len(issued) - 1) :
        LET last == issued[Len(issued)] IN
        /\ SameCustomerAndDate(issued[i], last) => issued[i].sequence < last.sequence
        /\ issued[i].invoice_no # last.invoice_no

\* the entry of the history file that records an issued invoice
Records(entry, record) ==
    /\ entry.invoice_no = record.invoice_no
    /\ entry.customer_code = record.customer_code
    /\ entry.date = record.date

\* C28: after n calls of add_invoice_history from an empty history the
\* stored history is the last min(n, HistoryCap) entries added, in the
\* order they were added, each as it was added; it is never longer than
\* HistoryCap.
C28_HistoryIsLastAdded ==
    /\ Len(history) <= HistoryCap
    /\ Len(history) =
           (IF Len(issued) < HistoryCap THEN Len(issued) ELSE HistoryCap)
    /\ \A i \in 1..Len(history) :
           Records(history[i], issued[Len(issued) - Len(history) + i])

\* C28, its case: more entries added than the cap, the oldest two dropped
C28_OldestDropped ==
    /\ Len(issued) = HistoryCap + 2
    /\ Len(history) = HistoryCap
    /\ history[1].invoice_no = issued[3].invoice_no
    /\ history[1].invoice_no # issued[1].invoice_no

\* an invoice has been issued in the step
Issues == Len(issued') = Len(issued) + 1

\* C16: appending to the history the invoice number generated for a
\* customer code and date leaves get_next_sequence unchanged for every
\* other (upper-cased customer code, date).
C16_OtherSequencesUnchanged ==
    [][Issues =>
          \A c \in CustomerCodes, d \in InvoiceDates :
              (Upper(CodeOrXX(c)) # Upper(issued'[Len(issued')].customer_code)
                  \/ d # issued'[Len(issued')].date)
              => get_next_sequence(history', CodeOrXX(c), d)
                     = get_next_sequence(history, CodeOrXX(c), d)]_vars

\* ------------------ two sessions that generate invoices on one history

\* Streamlit runs the script of each session in a thread of its own; the
\* DataStore of each reads and rewrites the same history file, without a
\* lock.  A flow reads the file in get_next_sequence, reads it again in
\* add_invoice_history, and rewrites it from what it read there.
Sessions == {1, 2}

Flow(at, entry, seq, loaded) ==
    [at |-> at, entry |-> entry, seq |-> seq, loaded |-> loaded]
FlowAtForm == Flow("form", None, 0, <<>>)

FlowsInit ==
    /\ pc = "sessions"
    /\ history \in {<<>>, <<HistoryEntry("sk", EarlierDate, 1)>>}
    /\ issued = [i \in 1..Len(history) |-> IssuedRecord(history[i], 1)]
    /\ gens = 0
    /\ flows = [f \in Sessions |-> FlowAtForm]
    /\ FCIdle /\ ValIdle /\ ParseIdle /\ MasterIdle

\* the click: seq = data_store.get_next_sequence(...), the invoice number
FlowSequence(f, customer_code, date) ==
    /\ flows[f].at = "form"
    /\ LET seq == get_next_sequence(history, CodeOrXX(customer_code), date) IN
       flows' = [flows EXCEPT
                    ![f] = Flow("numbered",
                                Some(HistoryEntry(customer_code, date, seq)),
                                seq, <<>>)]
    /\ UNCHANGED <<pc, history, issued, gens>>
    /\ UNCHANGED <<fcVars, valVars, parseVars, masterVars>>

\* add_invoice_history: history = self._load_json(self.history_file)
FlowLoad(f) ==
    /\ flows[f].at = "numbered"
    /\ flows' = [flows EXCEPT ![f].at = "loaded", ![f].loaded = history]
    /\ UNCHANGED <<pc, history, issued, gens>>
    /\ UNCHANGED <<fcVars, valVars, parseVars, masterVars>>

\* add_invoice_history: the append, the cap, and self._save_json(...)
FlowSave(f) ==
    /\ flows[f].at = "loaded"
    /\ history' = add_invoice_history(flows[f].loaded, The(flows[f].entry))
    /\ issued' = Append(issued, IssuedRecord(The(flows[f].entry), flows[f].seq))
    /\ gens' = gens + 1
    /\ flows' = [flows EXCEPT ![f].at = "saved", ![f].loaded = <<>>]
    /\ UNCHANGED pc
    /\ UNCHANGED <<fcVars, valVars, parseVars, masterVars>>

FlowsNext ==
    \E f \in Sessions :
        \/ \E customer_code \in CustomerCodes, date \in InvoiceDates :
              FlowSequence(f, customer_code, date)
        \/ FlowLoad(f)
        \/ FlowSave(f)

SpecFlows == FlowsInit /\ [][FlowsNext]_vars

\* C30: when two flows interleave on the history file, no two entries of
\* the history carry the same invoice number, and every entry a flow has
\* appended is in the history.
C30_NoDuplicateNoLostEntry ==
    /\ \A i, j \in 1..Len(history) :
           i # j => history[i].invoice_no # history[j].invoice_no
    /\ \A r \in 1..Len(issued) :
           \E i \in 1..Len(history) : Records(history[i], issued[r])

\* ------------------------- DataStore.get_next_sequence over any history

\* the largest number of entries of a history file drawn at the start
MaxHist == 2

\* entries a history file may hold: invoices of "SK" and "OT" on two dates,
\* and invoice numbers whose last field is not a number, is empty, or
\* follows a second hyphen
FileEntry(invoice_no, customer_code, date) ==
    [invoice_no |-> invoice_no, customer_code |-> customer_code, date |-> date]
FileEntries ==
    {FileEntry("INVSK250101-1", "SK", EarlierDate),
     FileEntry("INVSK250101-3", "SK", EarlierDate),
     FileEntry("INVSK250101-x", "SK", EarlierDate),
     FileEntry("INVSK250101-", "SK", EarlierDate),
     FileEntry("INVSK250101-2-7", "SK", EarlierDate),
     FileEntry("INVOT250101-5", "OT", EarlierDate),
     FileEntry("INVSK251104-9", "SK", [y |-> 2025, m |-> 11, d |-> 4])}

Histories ==
    UNION {[1..n -> FileEntries] : n \in 0..MaxHist}

SeqInit ==
    /\ pc = "form"
    /\ history \in Histories
    /\ issued = <<>>
    /\ gens = 0
    /\ flows = <<>>
    /\ FCIdle /\ ValIdle /\ ParseIdle /\ MasterIdle

SpecSequence == SeqInit /\ [][HistNext]_vars

\* the text after the last hyphen of an invoice number, told from the
\* number itself: the number ends with a hyphen and that text, which holds
\* no hyphen
IsSuffix(t, invoice_no) ==
    /\ Len(t) < Len(invoice_no)
    /\ SubSeq(invoice_no, Len(invoice_no) - Len(t) + 1, Len(invoice_no)) = t
    /\ Char(invoice_no, Len(invoice_no) - Len(t)) = "-"
    /\ \A i \in 1..Len(t) : Char(t, i) # "-"

\* the integers, among those a sequence number takes here, that are the
\* suffix of one of the invoice numbers
SuffixesOf(numbers) ==
    {n \in 0..20 :
        \E no \in numbers :
            IsSuffix(NatToStr(n), no) \/ IsSuffix("0" \o NatToStr(n), no)}

\* the integer suffixes of the entries whose invoice number starts with
\* INV + upper(c) + YYMMDD(d) + '-'
Suffixes(h, c, d) ==
    SuffixesOf({h[i].invoice_no : i \in
                   {j \in 1..Len(h) :
                       StartsWith(h[j].invoice_no,
                                  "INV" \o Upper(c) \o Pad2(d.y % 100)
                                        \o Pad2(d.m) \o Pad2(d.d) \o "-")}})

\* C17: get_next_sequence(c, d) is 1 + the largest integer suffix over the
\* entries whose invoice number starts with the prefix of (c, d), entries
\* whose suffix is no integer left aside, and 1 when there is no such entry.
C17_NextSequenceIsMaxPlusOne ==
    [][Issues =>
          LET s == issued'[Len(issued')].sequence
              found == Suffixes(history, issued'[Len(issued')].customer_code,
                                issued'[Len(issued')].date)
          IN /\ s >= 1
             /\ \A n \in found : n < s
             /\ s > 1 => (s - 1) \in found]_vars

\* INVSK250101-1 and INVSK250101-3 gave 4 for (SK, 2025-01-01)
C17_OneAndThreeGiveFour ==
    /\ Len(issued) >= 1
    /\ issued[1].sequence = 4
    /\ issued[1].customer_code = "sk"
    /\ issued[1].date = EarlierDate
    /\ Len(history) >= 3
    /\ history[1].invoice_no = "INVSK250101-1"
    /\ history[2].invoice_no = "INVSK250101-3"
    /\ history[3].invoice_no = "INVSK250101-4"

\* --------------------------------------------- cells, numbers, coercion

\* A cell as pandas delivers it: the missing marker (NaN), a number (held in
\* tenths: 25 is 2.5) or text.
Blank == [k |-> "nan", n |-> 0, s |-> ""]
Num(tenths) == [k |-> "num", n |-> tenths, s |-> ""]
Text(s) == [k |-> "text", n |-> 0, s |-> s]

\* pd.notna
notna(v) == v.k # "nan"

\* a Python float: finite (in tenths), an infinity, or nan
Fin(tenths) == [k |-> "fin", t |-> tenths]
Infinity == [k |-> "inf", t |-> 0]
NotANumber == [k |-> "nan", t |-> 0]

Abs(n) == IF n < 0 THEN 0 - n ELSE n

\* str() of a float with one decimal: "2.5", "-5.0"
FloatStr(tenths) ==
    (IF tenths < 0 THEN "-" ELSE "")
    \o NatToStr(Abs(tenths) \div 10) \o "." \o Char(Digits, (Abs(tenths) % 10) + 1)

\* str(v) of a cell
CellStr(v) ==
    IF v.k = "nan" THEN "nan"
    ELSE IF v.k = "text" THEN v.s
    ELSE FloatStr(v.n)

\* the place of the first "." of a text, 0 when there is none
DotAt(s) ==
    IF \E i \in 1..Len(s) : Char(s, i) = "."
    THEN CHOOSE i \in 1..Len(s) :
             Char(s, i) = "." /\ \A j \in 1..(i - 1) : Char(s, j) # "."
    ELSE 0

OnlyDigits(s) == \A i \in 1..Len(s) : IsDigit(Char(s, i))

\* float(text): None stands for ValueError.  Accepted here: surrounding
\* whitespace, one sign, "inf" / "infinity" / "nan" in any case, and decimals
\* digits[.digits]; a decimal is kept to its first fractional digit.
\* (Exponents and digit-group underscores are not modelled.)
Signed(t) == Len(t) > 0 /\ Char(t, 1) \in {"+", "-"}
Negative(t) == Signed(t) /\ Char(t, 1) = "-"
Unsigned(t) == IF Signed(t) THEN SubSeq(t, 2, Len(t)) ELSE t

Whole(body, dot) == IF dot = 0 THEN body ELSE SubSeq(body, 1, dot - 1)
Frac(body, dot) == IF dot = 0 THEN "" ELSE SubSeq(body, dot + 1, Len(body))

ParseDecimal(whole, frac, negative) ==
    IF OnlyDigits(whole) /\ OnlyDigits(frac) /\ Len(whole) + Len(frac) > 0
    THEN Some(Fin((IF negative THEN 0 - 1 ELSE 1)
                  * (10 * DigitsValue(whole, 0)
                     + (IF Len(frac) > 0 THEN DigitValue(Char(frac, 1)) ELSE 0))))
    ELSE None

ParseUnsigned(body, dot, negative) ==
    IF Upper(body) \in {"INF", "INFINITY"} THEN Some(Infinity)
    ELSE IF Upper(body) = "NAN" THEN Some(NotANumber)
    ELSE ParseDecimal(Whole(body, dot), Frac(body, dot), negative)

ParseStripped(t) == ParseUnsigned(Unsigned(t), DotAt(Unsigned(t)), Negative(t))

ParseFloat(text) == ParseStripped(Strip(text))

\* float(v) of a cell that is not the missing marker
ToFloat(v) == IF v.k = "num" THEN Some(Fin(v.n)) ELSE ParseFloat(v.s)

\* int(f) of a finite float: truncation towards zero
Truncate(tenths) ==
    IF tenths >= 0 THEN tenths \div 10 ELSE 0 - ((0 - tenths) \div 10)

\* int(f) in "try: ... except (ValueError, TypeError): qty = 0": float()
\* failed (ValueError, caught), int() of nan (ValueError, caught), int() of
\* an infinity (OverflowError, not caught), int() of a finite float
IntOf(f) ==
    IF f = None THEN [raised |-> FALSE, qty |-> 0]
    ELSE IF The(f).k = "nan" THEN [raised |-> FALSE, qty |-> 0]
    ELSE IF The(f).k = "inf" THEN [raised |-> TRUE, qty |-> 0]
    ELSE [raised |-> FALSE, qty |-> Truncate(The(f).t)]

\* "qty = int(float(qty_value)) if pd.notna(qty_value) else 0"
QtyOf(qty_value) ==
    IF ~notna(qty_value) THEN [raised |-> FALSE, qty |-> 0]
    ELSE IntOf(ToFloat(qty_value))

\* the float, or 0.0 when float() raised ValueError
FloatOr0(f) == IF f = None THEN Fin(0) ELSE The(f)

\* "float(value) if pd.notna(value) else 0.0", in its try / except
\* (ValueError, TypeError): the unit price and the amount
FloatOf(value) == IF ~notna(value) THEN Fin(0) ELSE FloatOr0(ToFloat(value))

\* ---------------------------------- POParser.detect_currency_from_column

\* the column name is a str here: "not col_name" is the empty name
detect_currency_from_column(col_name) ==
    IF col_name = "" THEN None
    ELSE IF Contains(Upper(col_name), "KRW") \/ Contains(col_name, "#C6D0")
         THEN Some("KRW")
    ELSE IF Contains(Upper(col_name), "USD") \/ Contains(col_name, "$")
         THEN Some("USD")
    ELSE IF Contains(Upper(col_name), "EUR") \/ Contains(col_name, "#20AC")
         THEN Some("EUR")
    ELSE IF Contains(Upper(col_name), "JPY") \/ Contains(col_name, "#00A5")
         THEN Some("JPY")
    ELSE None

\* the column names given to detect_currency_from_column: a word, a
\* currency written as its code (in any case), as its symbol or as the
\* Korean word for won, and an ending
NameStarts == {"", "Price ", "AMOUNT("}
NameTokens ==
    {"", "KRW", "krw", "USD", "Usd", "EUR", "eur", "JPY", "jpy",
     "#20A9", "$", "#20AC", "#00A5", "#C6D0", "US", "WON"}
NameEnds == {"", ")", " total"}
CurrencyColumnNames ==
    {a \o t \o z : a \in NameStarts, t \in NameTokens, z \in NameEnds}

CurrencyInit ==
    /\ pc = "detect_currency"
    /\ given \in CurrencyColumnNames
    /\ returned = None
    /\ stream = <<>>
    /\ columns = <<>> /\ candidates = <<>> /\ result = None
    /\ ValIdle /\ HistIdle /\ ParseIdle /\ MasterIdle

DetectCurrency ==
    /\ pc = "detect_currency"
    /\ returned' = detect_currency_from_column(given)
    /\ pc' = "detect_currency:returned"
    /\ UNCHANGED <<columns, candidates, result, given, stream>>
    /\ UNCHANGED <<valVars, histVars, parseVars, masterVars>>

SpecCurrency == CurrencyInit /\ [][DetectCurrency]_vars

\* the currencies a column name has a token of: the ISO code in any case,
\* or the symbol (the won, dollar, euro and yen signs)
CurrencyTokens ==
    [KRW |-> "#20A9", USD |-> "$", EUR |-> "#20AC", JPY |-> "#00A5"]
Recognized(name) ==
    {code \in DOMAIN CurrencyTokens :
        Contains(Upper(name), code) \/ Contains(name, CurrencyTokens[code])}

\* C21: detect_currency_from_column returns KRW, USD, EUR or JPY when the
\* column name contains that code (in any case) or its symbol among the won,
\* dollar, euro and yen signs, and None when the name contains no such token.
C21_CurrencyOfRecognizedToken ==
    pc = "detect_currency:returned" =>
        /\ Recognized(given) = {} => returned = None
        /\ Recognized(given) # {} =>
              (returned # None /\ The(returned) \in Recognized(given))

\* ------------------------------------------- POParser.find_header_row

\* row_values = [str(v).upper().strip() for v in row.values if pd.notna(v)]
RowValues(row) ==
    {Strip(Upper(CellStr(row[i]))) : i \in {j \in 1..Len(row) : notna(row[j])}}

\* a header row told by a cell that contains a candidate
IsHeaderRowPartial(row) ==
    \E v \in RowValues(row), c \in 1..Len(SKU_COLUMN_CANDIDATES) :
        Contains(v, Upper(SKU_COLUMN_CANDIDATES[c]))

IsHeaderRow(row) ==
    LET row_values == RowValues(row) IN
    \E c \in 1..Len(SKU_COLUMN_CANDIDATES) :
        Upper(SKU_COLUMN_CANDIDATES[c]) \in row_values

\* the index (from 0) of the first row holding a SKU candidate, else 0
find_header_row(raw) ==
    IF \E i \in 1..Len(raw) : IsHeaderRow(raw[i])
    THEN (CHOOSE i \in 1..Len(raw) :
              IsHeaderRow(raw[i]) /\ \A j \in 1..(i - 1) : ~IsHeaderRow(raw[j])) - 1
    ELSE 0

\* the largest number of rows of a sheet given to find_header_row
MaxTop == 3

\* the cells of the sheets given to find_header_row: blank, a SKU candidate
\* in lower case between blanks, a title that contains one, and a number
TopCells == {Blank, Text(" sku id "), Text("SKU ID LIST"), Num(10)}
TopSheets ==
    UNION {[1..n -> [1..2 -> TopCells]] : n \in 0..MaxTop}

HeaderInit ==
    /\ pc = "find_header_row"
    /\ given \in TopSheets
    /\ returned = None
    /\ stream = <<>>
    /\ columns = <<>> /\ candidates = <<>> /\ result = None
    /\ ValIdle /\ HistIdle /\ ParseIdle /\ MasterIdle

FindHeaderRow ==
    /\ pc = "find_header_row"
    /\ returned' = Some(find_header_row(given))
    /\ pc' = "find_header_row:returned"
    /\ UNCHANGED <<columns, candidates, result, given, stream>>
    /\ UNCHANGED <<valVars, histVars, parseVars, masterVars>>

SpecHeader == HeaderInit /\ [][FindHeaderRow]_vars

\* the row has a cell whose text, in upper case and trimmed, is a SKU
\* column candidate
NamesSku(row) ==
    \E i \in 1..Len(row), c \in 1..Len(SKU_COLUMN_CANDIDATES) :
        /\ row[i].k # "nan"
        /\ Strip(Upper(CellStr(row[i]))) = SKU_COLUMN_CANDIDATES[c]

\* C26: find_header_row returns the index (from 0) of the first row, from
\* the top, that has a cell equal to a SKU column candidate once in upper
\* case and trimmed; a cell that only contains a candidate does not count;
\* with no such row the result is 0.
C26_FirstRowNamingSku ==
    pc = "find_header_row:returned" =>
        /\ (\A i \in 1..Len(given) : ~NamesSku(given[i])) => The(returned) = 0
        /\ (\E i \in 1..Len(given) : NamesSku(given[i])) =>
              /\ The(returned) + 1 \in 1..Len(given)
              /\ NamesSku(given[The(returned) + 1])
              /\ \A j \in 1..The(returned) : ~NamesSku(given[j])

\* the header row found below a title row that contains a candidate
C26_HeaderBelowTitle ==
    /\ pc = "find_header_row:returned"
    /\ The(returned) = 1
    /\ given[1][1] = Text("SKU ID LIST")

\* ------------------------------------ pd.read_excel(header=header_row)

\* the column labels: the header row's cells; pandas labels a blank header
\* cell "Unnamed: <position>", and a numeric cell keeps its number
ColumnLabel(cell, position) ==
    IF cell.k = "nan" THEN Text("Unnamed: " \o NatToStr(position)) ELSE cell

DfColumns(raw, header_row) ==
    IF header_row + 1 > Len(raw) THEN <<>>
    ELSE [i \in 1..Len(raw[header_row + 1]) |->
             ColumnLabel(raw[header_row + 1][i], i - 1)]

\* the data rows: those below the header row
DfRows(raw, header_row) ==
    IF header_row + 1 >= Len(raw) THEN <<>>
    ELSE SubSeq(raw, header_row + 2, Len(raw))

\* row.get(col, default): the cell of the row under the column labelled col
RowGet(df_columns, row, col) ==
    row[CHOOSE i \in 1..Len(df_columns) : df_columns[i] = Text(col)]

\* ------------------------------------------- SKUMaster.get_by_sku_id

\* row.get('barcode_clean', ''): '' on a table without the column
BarcodeClean(row) ==
    IF "barcode_clean" \in DOMAIN row THEN row.barcode_clean ELSE ""

\* _load_data with no table loaded and no local CSV file returns an empty
\* DataFrame, which has no 'variant_code' column: df['variant_code'] raises
\* KeyError.  The result: raised, or the info dict (None on a miss).
get_by_sku_id(df, sku_id) ==
    IF df = None THEN [raised |-> TRUE, info |-> None]
    ELSE LET table == The(df)
             match == {i \in 1..Len(table) : table[i].variant_code = sku_id}
         IN IF match = {} THEN [raised |-> FALSE, info |-> None]
            ELSE LET row == table[CHOOSE i \in match : \A j \in match : i <= j] IN
                 [raised |-> FALSE,
                  info |-> Some([sku_id |-> row.variant_code,
                                 barcode |-> BarcodeClean(row),
                                 description |-> row.variant_full_name,
                                 hs_code |-> "",
                                 manufacturer |-> row.manufacturer,
                                 variant_status |-> row.variant_status])]

\* --------------------------------------------- SKUMaster._process_barcode

\* float(val) of a barcode that float() accepts: the text of the barcode
\* (int() of an infinity raises, and the bare except returns str(val))
BarcodeFrom(val, f) ==
    IF The(f).k = "nan" THEN ""
    ELSE IF The(f).k = "inf"
         THEN (IF val.k = "text" /\ Negative(Strip(val.s)) THEN "" ELSE CellStr(val))
    ELSE IF The(f).t > 0 THEN NatToStr(Truncate(The(f).t))
    ELSE ""

\* what float(val) leaves of a barcode: str(val) when float() raises
BarcodeOr(val, f) == IF f = None THEN CellStr(val) ELSE BarcodeFrom(val, f)

convert_barcode(val) ==
    IF ~notna(val) \/ val = Text("") THEN ""
    ELSE BarcodeOr(val, ToFloat(val))

\* self._df['barcode_clean'] = self._df['barcode'].apply(convert_barcode),
\* on a table that has a 'barcode' column; a table without it is left alone
HasColumn(table, column) == \A i \in 1..Len(table) : column \in DOMAIN table[i]

process_barcode(table) ==
    IF ~HasColumn(table, "barcode") THEN table
    ELSE [i \in 1..Len(table) |->
             [c \in DOMAIN table[i] \cup {"barcode_clean"} |->
                 IF c = "barcode_clean" THEN convert_barcode(table[i].barcode)
                 ELSE table[i][c]]]

\* the raw barcode cells given to convert_barcode: the missing marker,
\* numbers, and texts with and without blanks around them
BarcodeTexts ==
    {"", "880989.0", "880989", "123", "0", "0.0", "0.5", "1.5", "-5", "007",
     "+7", "ABC", "12a", "nan", "inf", "-inf"}
RawBarcodes ==
    {Blank, Num(8809890), Num(0), Num(5), Num(25), Num(-50)}
    \cup {Text(a \o t \o z) : a \in {"", " "}, t \in BarcodeTexts, z \in {"", " "}}

BarcodeInit ==
    /\ pc = "convert_barcode"
    /\ given \in RawBarcodes
    /\ returned = <<>>
    /\ stream = <<>>
    /\ columns = <<>> /\ candidates = <<>> /\ result = None
    /\ ValIdle /\ HistIdle /\ ParseIdle /\ MasterIdle

\* convert_barcode applied to the cell, then to the barcode it returned
ConvertBarcode ==
    /\ pc = "convert_barcode"
    /\ Len(returned) < 2
    /\ returned' = Append(returned,
                          convert_barcode(IF returned = <<>> THEN given
                                          ELSE Text(returned[Len(returned)])))
    /\ UNCHANGED <<pc, columns, candidates, result, given, stream>>
    /\ UNCHANGED <<valVars, histVars, parseVars, masterVars>>

SpecBarcode == BarcodeInit /\ [][ConvertBarcode]_vars

\* the barcode as claimed: empty for a blank cell, the whole part in
\* decimal for a cell that parses as a positive number, the trimmed text of
\* the cell otherwise
IsPositive(f) == f # None /\ The(f).k = "fin" /\ The(f).t > 0
ClaimedBarcode(val) ==
    IF ~notna(val) \/ val = Text("") THEN ""
    ELSE IF IsPositive(ToFloat(val))
         THEN NatToStr(The(ToFloat(val)).t \div 10)
    ELSE Strip(CellStr(val))

\* C22: convert_barcode gives the empty string for a blank cell, the
\* integer-truncated decimal string for a value that parses as a positive
\* number, and the trimmed original text for every other value.
C22_BarcodeFollowsAlgorithm ==
    Len(returned) >= 1 => returned[1] = ClaimedBarcode(given)

\* C23: normalizing a normalized barcode gives the same barcode.
C23_NormalizationIdempotent ==
    Len(returned) = 2 => returned[2] = returned[1]

\* ---------------------------- SKUMaster.get_by_barcode, SKUMaster.search

UpperToLower ==
    [c \in {Char(UpperAlphabet, i) : i \in 1..26} |->
        Char(LowerAlphabet, CHOOSE i \in 1..26 : Char(UpperAlphabet, i) = c)]
LowerChar(c) == IF c \in DOMAIN UpperToLower THEN UpperToLower[c] ELSE c

RECURSIVE Lower(_)
\* str.lower()
Lower(s) ==
    IF Len(s) = 0 THEN ""
    ELSE LowerChar(Char(s, 1)) \o Lower(SubSeq(s, 2, Len(s)))

\* the dict made of a row of the table
InfoOf(row) ==
    [sku_id |-> row.variant_code,
     barcode |-> BarcodeClean(row),
     description |-> row.variant_full_name,
     hs_code |-> "",
     product_name |-> row.product_name,
     variant_name |-> row.variant_name,
     manufacturer |-> row.manufacturer,
     variant_status |-> row.variant_status]

\* the first of a set of places
FirstOf(places) == CHOOSE i \in places : \A j \in places : i <= j

\* df[df['barcode_clean'] == barcode_clean], then the first match: KeyError on
\* the empty DataFrame of a master never loaded, and on a table that has no
\* 'barcode_clean' column
BarcodeMatch(table, barcode_clean) ==
    {i \in 1..Len(table) : table[i].barcode_clean = barcode_clean}

FirstInfo(table, match) ==
    IF match = {} THEN [raised |-> FALSE, info |-> None]
    ELSE [raised |-> FALSE, info |-> Some(InfoOf(table[FirstOf(match)]))]

get_by_barcode(df, barcode) ==
    IF df = None THEN [raised |-> TRUE, info |-> None]
    ELSE IF ~HasColumn(The(df), "barcode_clean") THEN [raised |-> TRUE, info |-> None]
    ELSE FirstInfo(The(df), BarcodeMatch(The(df), Strip(barcode)))

\* the mask of search: the query is in the SKU code, the clean barcode, the
\* variant name or the product name (the barcode is compared as it is, the
\* others in lower case)
Masked(row, query_lower) ==
    \/ Contains(Lower(row.variant_code), query_lower)
    \/ Contains(row.barcode_clean, query_lower)
    \/ Contains(Lower(row.variant_name), query_lower)
    \/ Contains(Lower(row.product_name), query_lower)

\* df[mask].head(limit): the places of the first limit rows of the mask
HeadOf(places, limit) ==
    {i \in places : Cardinality({j \in places : j < i}) < limit}

RECURSIVE InfosOf(_, _, _)
\* the dicts of the rows at the places from i on, in the order of the table,
\* of the rows that have a variant_code
InfosOf(table, places, i) ==
    IF i > Len(table) THEN <<>>
    ELSE (IF i \in places /\ table[i].variant_code # ""
          THEN <<InfoOf(table[i])>> ELSE <<>>)
         \o InfosOf(table, places, i + 1)

Searched(table, query_lower, limit) ==
    InfosOf(table,
            HeadOf({i \in 1..Len(table) : Masked(table[i], query_lower)}, limit), 1)

SearchIn(df, query_lower, limit) ==
    IF query_lower = "" THEN [raised |-> FALSE, infos |-> <<>>]
    ELSE IF df = None THEN [raised |-> TRUE, infos |-> <<>>]
    ELSE IF ~HasColumn(The(df), "barcode_clean") THEN [raised |-> TRUE, infos |-> <<>>]
    ELSE [raised |-> FALSE, infos |-> Searched(The(df), query_lower, limit)]

search(df, query, limit) == SearchIn(df, Strip(Lower(query)), limit)
\* ------------------------------------------------------ POParser.parse

\* options.get(..., default): the options with their defaults
DefaultOptions ==
    [include_price |-> TRUE, include_hs_code |-> FALSE, include_name_kr |-> FALSE]

\* a message: what it reports, and the texts it is formatted from
Msg(kind, args) == [kind |-> kind, args |-> args]

\* how app.py shows a message, from the sign its text starts with: the cross
\* mark (an error), the warning sign (a warning), anything else (a caption)
Severity(m) ==
    IF m.kind = "error" THEN "fatal"
    ELSE IF m.kind \in {"sku_missing", "qty_missing", "not_found"} THEN "warning"
    ELSE "info"

\* pd.read_excel without sheet_name reads the first sheet of the workbook
FirstSheet(f) == f.sheets[1].rows

\* str(cell) with the text 'nan' replaced by '': the PO name and barcode
NanToEmpty(text) == IF text = "nan" THEN "" ELSE text

\* ResolveColumns looking for the HS code column whatever the options
ResolveColumnsHsAlways(names, opts) ==
    [sku |-> find_column(names, SKU_COLUMN_CANDIDATES),
     qty |-> find_column(names, QTY_COLUMN_CANDIDATES),
     name_en |-> find_column(names, NAME_EN_COLUMN_CANDIDATES),
     name_kr |-> find_column(names, NAME_KR_COLUMN_CANDIDATES),
     barcode |-> find_column(names, BARCODE_COLUMN_CANDIDATES),
     price |-> find_column(names, PRICE_COLUMN_CANDIDATES),
     amount |-> find_column(names, AMOUNT_COLUMN_CANDIDATES),
     hs_code |-> find_column(names, HS_CODE_COLUMN_CANDIDATES),
     currency |-> find_column(names, CURRENCY_COLUMN_CANDIDATES)]

\* the eight find_column calls, and the currency column
ResolveColumns(names, opts) ==
    [sku |-> find_column(names, SKU_COLUMN_CANDIDATES),
     qty |-> find_column(names, QTY_COLUMN_CANDIDATES),
     name_en |-> find_column(names, NAME_EN_COLUMN_CANDIDATES),
     name_kr |-> find_column(names, NAME_KR_COLUMN_CANDIDATES),
     barcode |-> find_column(names, BARCODE_COLUMN_CANDIDATES),
     price |-> find_column(names, PRICE_COLUMN_CANDIDATES),
     amount |-> find_column(names, AMOUNT_COLUMN_CANDIDATES),
     hs_code |-> IF opts.include_hs_code
                 THEN find_column(names, HS_CODE_COLUMN_CANDIDATES) ELSE None,
     currency |-> find_column(names, CURRENCY_COLUMN_CANDIDATES)]

\* DetectedCurrency looked for with a currency column too
DetectedCurrencyAlways(cols) ==
    LET from_amount == IF IsSome(cols.amount)
                       THEN detect_currency_from_column(The(cols.amount))
                       ELSE None
    IN IF from_amount = None /\ IsSome(cols.price)
       THEN detect_currency_from_column(The(cols.price))
       ELSE from_amount

\* detected_currency: looked for in the amount header, then in the price
\* header, and only when no currency column was found
DetectedCurrency(cols) ==
    IF IsSome(cols.currency) THEN None
    ELSE LET from_amount == IF IsSome(cols.amount)
                            THEN detect_currency_from_column(The(cols.amount))
                            ELSE None
         IN IF from_amount = None /\ IsSome(cols.price)
            THEN detect_currency_from_column(The(cols.price))
            ELSE from_amount

\* the messages naming the columns found
ColumnMessages(cols, detected, opts) ==
    <<Msg("sku_col", <<The(cols.sku)>>), Msg("qty_col", <<The(cols.qty)>>)>>
    \o (IF IsSome(cols.name_en) THEN <<Msg("name_en_col", cols.name_en)>> ELSE <<>>)
    \o (IF IsSome(cols.name_kr) THEN <<Msg("name_kr_col", cols.name_kr)>> ELSE <<>>)
    \o (IF IsSome(cols.price) /\ opts.include_price
        THEN <<Msg("price_col", cols.price)>> ELSE <<>>)
    \o (IF IsSome(cols.amount) /\ opts.include_price
        THEN <<Msg("amount_col", cols.amount)>> ELSE <<>>)
    \o (IF IsSome(cols.currency) THEN <<Msg("currency_col", cols.currency)>>
        ELSE IF IsSome(detected) THEN <<Msg("detected_currency", detected)>>
        ELSE <<>>)
    \o (IF IsSome(cols.hs_code) THEN <<Msg("hs_code_col", cols.hs_code)>> ELSE <<>>)

\* the currency of a row: the currency cell, trimmed and uppercased, unless
\* it is blank; else the detected currency
RowCurrency(cols, df_columns, detected, row) ==
    LET currency_value ==
            IF IsSome(cols.currency)
            THEN Upper(Strip(CellStr(RowGet(df_columns, row, The(cols.currency)))))
            ELSE ""
    IN IF currency_value # "" /\ currency_value # "NAN"
       THEN Some(currency_value) ELSE detected

\* the HS code a row gives: str() of the cell unless it is blank
RowHsCode(cols, df_columns, row) ==
    IF IsSome(cols.hs_code)
    THEN NanToEmpty(CellStr(RowGet(df_columns, row, The(cols.hs_code))))
    ELSE ""

\* x or y, on texts
Or(x, y) == IF x # "" THEN x ELSE y

\* the description given to an item not in the SKU master, when the PO
\* names it nowhere: '[미등록] {sku_id}'
Unregistered(sku_id) == "[#BBF8#B4F1#B85D] " \o sku_id

\* row.get(col, ''), for a column that may not have been found
Cell(col, df_columns, row) == RowGet(df_columns, row, The(col))

\* str(row.get(col, '')) with 'nan' replaced by '', '' without the column
PoText(col, df_columns, row) ==
    IF IsSome(col) THEN NanToEmpty(CellStr(Cell(col, df_columns, row))) ELSE ""

\* the unit price and the amount: 0.0 without the column
PoFloat(col, df_columns, row) ==
    IF IsSome(col) THEN FloatOf(Cell(col, df_columns, row)) ELSE Fin(0)

\* the fields both kinds of item are given alike
Common(sku_id, po_name_kr, qty, unit_price, amount, currency, opts) ==
    [sku_id |-> sku_id,
     name_kr |-> IF opts.include_name_kr THEN po_name_kr ELSE "",
     qty |-> qty,
     unit_price |-> IF opts.include_price THEN unit_price ELSE Fin(0),
     amount |-> IF opts.include_price THEN amount ELSE Fin(0),
     currency |-> IF opts.include_price THEN currency ELSE None]

RowSkip == [kind |-> "skip", item |-> None, exception |-> ""]
RowRaise(exception) == [kind |-> "raise", item |-> None, exception |-> exception]
RowItem(item) == [kind |-> "item", item |-> Some(item), exception |-> ""]

\* MasterItem without the fallback to the PO's name
MasterItemNoFallback(common, sku_info, po_description, po_hs_code) ==
    common @@ [barcode |-> sku_info.barcode,
               description |-> sku_info.description,
               hs_code |-> Or(po_hs_code, sku_info.hs_code),
               source |-> "master",
               manufacturer |-> sku_info.manufacturer,
               variant_status |-> sku_info.variant_status]

\* "if sku_info:" the item from the SKU master
MasterItem(common, sku_info, po_description, po_hs_code) ==
    common @@ [barcode |-> sku_info.barcode,
               description |-> Or(sku_info.description, po_description),
               hs_code |-> Or(po_hs_code, sku_info.hs_code),
               source |-> "master",
               manufacturer |-> sku_info.manufacturer,
               variant_status |-> sku_info.variant_status]

\* "else:" the item from the PO alone
PoOnlyItem(common, po_description, po_barcode, po_hs_code) ==
    common @@ [barcode |-> po_barcode,
               description |-> Or(po_description, Unregistered(common.sku_id)),
               hs_code |-> po_hs_code,
               source |-> "po_only",
               manufacturer |-> "",
               variant_status |-> ""]

\* a pass that takes every row as one the SKU master does not know
LookedUnmatched(found, common, po_description, po_barcode, po_hs_code) ==
    IF found.raised THEN RowRaise("KeyError")
    ELSE RowItem(PoOnlyItem(common, po_description, po_barcode, po_hs_code))

\* the rest of the pass, from the lookup in the SKU master on
Looked(found, common, po_description, po_barcode, po_hs_code) ==
    IF found.raised THEN RowRaise("KeyError")
    ELSE IF IsSome(found.info)
         THEN RowItem(MasterItem(common, The(found.info), po_description, po_hs_code))
    ELSE RowItem(PoOnlyItem(common, po_description, po_barcode, po_hs_code))

\* a pass that skips the negative quantities only
ExtractedKeepingZero(sku_id, q, cols, df_columns, detected, opts, df, row) ==
    IF sku_id = "" \/ sku_id = "nan" THEN RowSkip
    ELSE IF q.raised THEN RowRaise("OverflowError")
    ELSE IF q.qty < 0 THEN RowSkip
    ELSE Looked(get_by_sku_id(df, sku_id),
                Common(sku_id, PoText(cols.name_kr, df_columns, row), q.qty,
                       PoFloat(cols.price, df_columns, row),
                       PoFloat(cols.amount, df_columns, row),
                       RowCurrency(cols, df_columns, detected, row), opts),
                Or(PoText(cols.name_en, df_columns, row),
                   PoText(cols.name_kr, df_columns, row)),
                PoText(cols.barcode, df_columns, row),
                RowHsCode(cols, df_columns, row))

\* the pass once the SKU and the quantity are read
Extracted(sku_id, q, cols, df_columns, detected, opts, df, row) ==
    IF sku_id = "" \/ sku_id = "nan" THEN RowSkip
    ELSE IF q.raised THEN RowRaise("OverflowError")
    ELSE IF q.qty <= 0 THEN RowSkip
    ELSE Looked(get_by_sku_id(df, sku_id),
                Common(sku_id, PoText(cols.name_kr, df_columns, row), q.qty,
                       PoFloat(cols.price, df_columns, row),
                       PoFloat(cols.amount, df_columns, row),
                       RowCurrency(cols, df_columns, detected, row), opts),
                Or(PoText(cols.name_en, df_columns, row),
                   PoText(cols.name_kr, df_columns, row)),
                PoText(cols.barcode, df_columns, row),
                RowHsCode(cols, df_columns, row))

\* One pass of the loop over the rows of df: the row is skipped, or appends
\* an item (and, when the SKU is not in the master, its SKU to
\* not_found_skus), or raises.
RowOutcome(cols, df_columns, detected, opts, df, row) ==
    Extracted(Strip(CellStr(Cell(cols.sku, df_columns, row))),
              QtyOf(Cell(cols.qty, df_columns, row)),
              cols, df_columns, detected, opts, df, row)

RECURSIVE Join(_, _)
\* sep.join(texts)
Join(texts, sep) ==
    IF texts = <<>> THEN ""
    ELSE IF Len(texts) = 1 THEN texts[1]
    ELSE texts[1] \o sep \o Join(Tail(texts), sep)

\* the closing messages: the count, and the SKUs missing from the master
\* (the first five, then ' 외 N개')
ClosingMessages(item_list, not_found_skus) ==
    <<Msg("done", <<NatToStr(Len(item_list))>>)>>
    \o (IF not_found_skus # <<>>
        THEN <<Msg("not_found",
                   <<Join(SubSeq(not_found_skus, 1,
                                 IF Len(not_found_skus) < 5
                                 THEN Len(not_found_skus) ELSE 5), ", ")
                     \o (IF Len(not_found_skus) > 5
                         THEN " #C678 " \o NatToStr(Len(not_found_skus) - 5) \o "#AC1C"
                         ELSE "")>>)>>
        ELSE <<>>)

\* the column variables before step 4 has set them
NoColumns ==
    [sku |-> None, qty |-> None, name_en |-> None, name_kr |-> None,
     barcode |-> None, price |-> None, amount |-> None, hs_code |-> None,
     currency |-> None]

\* parse_multiple_sheets not called: parse was called on its own
NoScan == [caller |-> "", idx |-> 1, all_items |-> <<>>, all_messages |-> <<>>]

\* the locals of parse before it has read anything
NoLocals ==
    [header_row |-> 0, df_columns |-> <<>>, df_rows |-> <<>>, cols |-> NoColumns,
     detected_currency |-> None, idx |-> 1, not_found_skus |-> <<>>]

\* "except Exception as e": the error message, and the return
Caught(exception) ==
    /\ messages' = Append(messages, Msg("error", <<exception>>))
    /\ pc' = "parse:returned"

\* steps 1 to 3: the sheet is read without a header, the header row is
\* found, and the sheet is read again with that row as its header
HeaderFound(raw_df, header_row) ==
    /\ messages' = Append(messages, Msg("header_row", <<NatToStr(header_row + 1)>>))
    /\ loc' = [loc EXCEPT !.header_row = header_row,
                          !.df_columns = DfColumns(raw_df, header_row),
                          !.df_rows = DfRows(raw_df, header_row)]
    /\ pc' = "parse:columns"
    /\ UNCHANGED items

ParseRead ==
    /\ pc = "parse"
    /\ IF file.format # "xlsx"
       THEN /\ Caught("unreadable")
            /\ UNCHANGED <<loc, items>>
       ELSE HeaderFound(FirstSheet(file), find_header_row(FirstSheet(file)))
    /\ UNCHANGED <<scan, file, options, sku_df>>
    /\ UNCHANGED <<fcVars, valVars, histVars, masterVars>>

\* a resolution that raises when the SKU or the quantity column is missing
ResolvedRaising(cols, detected) ==
    IF cols.sku = None \/ cols.qty = None
    THEN /\ Caught("KeyError")
         /\ UNCHANGED loc
    ELSE /\ messages' = messages \o ColumnMessages(cols, detected, options)
         /\ loc' = [loc EXCEPT !.cols = cols, !.detected_currency = detected]
         /\ pc' = "parse:rows"

\* the columns once resolved: without a SKU or a quantity column parse
\* returns with a warning
Resolved(cols, detected) ==
    IF cols.sku = None
    THEN /\ messages' = Append(messages, Msg("sku_missing", <<>>))
         /\ pc' = "parse:returned"
         /\ UNCHANGED loc
    ELSE IF cols.qty = None
    THEN /\ messages' = Append(messages, Msg("qty_missing", <<>>))
         /\ pc' = "parse:returned"
         /\ UNCHANGED loc
    ELSE /\ messages' = messages \o ColumnMessages(cols, detected, options)
         /\ loc' = [loc EXCEPT !.cols = cols, !.detected_currency = detected]
         /\ pc' = "parse:rows"

ResolvedFrom(cols) == Resolved(cols, DetectedCurrency(cols))

\* step 4: the columns are found.  A column label that is not text has no
\* upper(): find_column raises AttributeError.
ParseColumns ==
    /\ pc = "parse:columns"
    /\ IF \E i \in 1..Len(loc.df_columns) : loc.df_columns[i].k # "text"
       THEN /\ Caught("AttributeError")
            /\ UNCHANGED loc
       ELSE ResolvedFrom(ResolveColumns(
                [i \in 1..Len(loc.df_columns) |-> loc.df_columns[i].s], options))
    /\ UNCHANGED <<scan, file, options, sku_df, items>>
    /\ UNCHANGED <<fcVars, valVars, histVars, masterVars>>

\* what a pass of the loop leaves behind
Passed(out) ==
    IF out.kind = "raise"
    THEN /\ Caught(out.exception)
         /\ UNCHANGED <<loc, items>>
    ELSE /\ items' = IF out.kind = "item"
                     THEN Append(items, The(out.item)) ELSE items
         /\ loc' = [loc EXCEPT
                      !.idx = loc.idx + 1,
                      !.not_found_skus =
                          IF out.kind = "item" /\ The(out.item).source = "po_only"
                          THEN Append(loc.not_found_skus, The(out.item).sku_id)
                          ELSE loc.not_found_skus]
         /\ UNCHANGED <<pc, messages>>

\* step 5, one row of df
ParseRow ==
    /\ pc = "parse:rows"
    /\ loc.idx <= Len(loc.df_rows)
    /\ Passed(RowOutcome(loc.cols, loc.df_columns, loc.detected_currency,
                         options, sku_df, loc.df_rows[loc.idx]))
    /\ UNCHANGED <<scan, file, options, sku_df>>
    /\ UNCHANGED <<fcVars, valVars, histVars, masterVars>>

\* after the last row: the closing messages, and the return
ParseDone ==
    /\ pc = "parse:rows"
    /\ loc.idx > Len(loc.df_rows)
    /\ messages' = messages \o ClosingMessages(items, loc.not_found_skus)
    /\ pc' = "parse:returned"
    /\ UNCHANGED <<scan, file, options, sku_df, loc, items>>
    /\ UNCHANGED <<fcVars, valVars, histVars, masterVars>>
\* ------------------------------------------------- parse: what it is given

\* the SKU master, once loaded: two products, the second without a full name
MasterTable ==
    <<[variant_code |-> "BIO-001", barcode |-> Text("123"), barcode_clean |-> "123",
       variant_name |-> "Pads", product_name |-> "Toner",
       variant_full_name |-> "Toner Pads", manufacturer |-> "Biodance",
       variant_status |-> "active"],
      [variant_code |-> "BIO-002", barcode |-> Blank, barcode_clean |-> "",
       variant_name |-> "", product_name |-> "",
       variant_full_name |-> "", manufacturer |-> "",
       variant_status |-> "inactive"]>>

NeverLoaded == None
Loaded == Some(MasterTable)
\* a table loaded from a source that has no rows
LoadedEmpty == Some(<<>>)

\* A PO layout: the header row, for each column the cells a data row may
\* hold there, the rows that may stand above the header, and the SKU master
\* states and the options it is parsed with.
Layout(header, cells, tops, tables, opts) ==
    [header |-> header, cells |-> cells, tops |-> tops, tables |-> tables,
     opts |-> opts]

TitleRow(width) == [i \in 1..width |-> IF i = 1 THEN Text("PURCHASE ORDER") ELSE Blank]

Layouts ==
    {\* names: an English and a Korean name column
     Layout(<<Text("SKU ID"), Text("ORDER QTY"), Text("Product Name_EN"),
              Text("Product Name_KR")>>,
            <<{Text("BIO-001"), Text("BIO-002"), Text("NEW-SKU")}, {Num(500)},
              {Blank, Text("New Product")}, {Blank, Text("KR name")}>>,
            {<<>>}, {Loaded},
            {DefaultOptions, [DefaultOptions EXCEPT !.include_name_kr = TRUE]}),
     \* a product that the SKU master does not know, named by the PO
     Layout(<<Text("SKU ID"), Text("QTY"), Text("Product Name")>>,
            <<{Text("NEW-SKU")}, {Num(500)}, {Text("New Product")}>>,
            {<<>>}, {NeverLoaded, LoadedEmpty, Loaded}, {DefaultOptions}),
     \* a Korean name column only
     Layout(<<Text("SKU"), Text("QTY"), Text("ITEM NAME")>>,
            <<{Text("BIO-001"), Text("BIO-002"), Text("NEW-SKU")}, {Num(100)},
              {Blank, Text("KR name")}>>,
            {<<>>}, {Loaded}, {DefaultOptions}),
     \* no name column, and a title row above the header
     Layout(<<Text("SKU"), Text("QTY")>>,
            <<{Text("BIO-001"), Text("BIO-002"), Text("NEW-SKU"), Blank},
              {Num(100), Num(0)}>>,
            {<<>>, <<TitleRow(2)>>}, {NeverLoaded, Loaded}, {DefaultOptions}),
     \* a currency column, and a currency in the amount header
     Layout(<<Text("SKU"), Text("QTY"), Text("Currency"), Text("AMOUNT(KRW)")>>,
            <<{Text("BIO-001")}, {Num(100)}, {Blank, Text(" usd ")},
              {Blank, Num(100000)}>>,
            {<<>>}, {Loaded},
            {DefaultOptions, [DefaultOptions EXCEPT !.include_price = FALSE]}),
     \* no currency column: a currency in the amount header
     Layout(<<Text("SKU"), Text("QTY"), Text("AMOUNT(KRW)"), Text("PRICE (USD)")>>,
            <<{Text("BIO-001")}, {Num(100)}, {Num(100000)}, {Num(10000), Text("n/a")}>>,
            {<<>>}, {Loaded},
            {DefaultOptions, [DefaultOptions EXCEPT !.include_price = FALSE]}),
     \* no currency column: a currency in the price header only
     Layout(<<Text("SKU"), Text("QTY"), Text("AMOUNT"), Text("Supply Price ($)")>>,
            <<{Text("BIO-001")}, {Num(100)}, {Num(150)}, {Num(15), Text("inf")}>>,
            {<<>>}, {Loaded}, {DefaultOptions}),
     \* no currency anywhere
     Layout(<<Text("SKU"), Text("QTY"), Text("AMOUNT"), Text("PRICE")>>,
            <<{Text("BIO-001")}, {Num(100)}, {Num(150)}, {Num(15)}>>,
            {<<>>}, {Loaded}, {DefaultOptions}),
     \* an HS code column
     Layout(<<Text("SKU"), Text("QTY"), Text("HS CODE")>>,
            <<{Text("BIO-001"), Text("NEW-SKU")}, {Num(100)},
              {Blank, Text("3307.90")}>>,
            {<<>>}, {Loaded},
            {DefaultOptions, [DefaultOptions EXCEPT !.include_hs_code = TRUE]}),
     \* a barcode column
     Layout(<<Text("SKU"), Text("QTY"), Text("BARCODE")>>,
            <<{Text("BIO-001"), Text("NEW-SKU")}, {Num(100)},
              {Blank, Text("999")}>>,
            {<<>>}, {Loaded}, {DefaultOptions}),
     \* quantities of every kind
     Layout(<<Text("Item Code"), Text("Quantity")>>,
            <<{Text("BIO-001")},
              {Num(100), Num(25), Num(0), Num(-50), Blank, Text("abc"), Text("inf")}>>,
            {<<>>}, {Loaded}, {DefaultOptions}),
     \* prices of every kind
     Layout(<<Text("Item Code"), Text("Quantity"), Text("Unit Price")>>,
            <<{Text("BIO-001")}, {Num(100)}, {Num(15), Blank, Text("abc")}>>,
            {<<>>}, {Loaded}, {DefaultOptions}),
     \* no SKU column, no quantity column, a number in the header
     Layout(<<Text("ITEM"), Text("QTY")>>, <<{Text("BIO-001")}, {Num(100)}>>,
            {<<>>}, {Loaded}, {DefaultOptions}),
     Layout(<<Text("SKU ID"), Text("NOTE")>>, <<{Text("BIO-001")}, {Text("urgent")}>>,
            {<<>>}, {Loaded}, {DefaultOptions}),
     Layout(<<Text("SKU"), Text("QTY"), Num(20250)>>,
            <<{Text("BIO-001")}, {Num(100)}, {Num(10)}>>,
            {<<>>}, {Loaded}, {DefaultOptions})}

AllCells(layout) == UNION {layout.cells[i] : i \in 1..Len(layout.cells)}

\* the data rows of a layout, and its sheets of at most MaxRows data rows
RowsOf(layout) ==
    {r \in [1..Len(layout.header) -> AllCells(layout)] :
        \A i \in 1..Len(layout.header) : r[i] \in layout.cells[i]}

SheetsOf(layout) ==
    {top \o <<layout.header>> \o data :
        top \in layout.tops,
        data \in UNION {[1..n -> RowsOf(layout)] : n \in 0..MaxRows}}

Workbook(sheet_rows) ==
    [format |-> "xlsx", sheets |-> <<[name |-> "Sheet1", rows |-> sheet_rows]>>]

\* a file that no reader engine accepts
CorruptFile == [format |-> "corrupt", sheets |-> <<>>]

ParseInit ==
    /\ pc = "parse"
    /\ \/ \E layout \in Layouts :
             /\ file \in {Workbook(rows) : rows \in SheetsOf(layout)}
             /\ options \in layout.opts
             /\ sku_df \in layout.tables
       \/ file = CorruptFile /\ options = DefaultOptions /\ sku_df = Loaded
    /\ loc = NoLocals
    /\ items = <<>>
    /\ messages = <<>>
    /\ scan = NoScan
    /\ FCIdle /\ ValIdle /\ HistIdle /\ MasterIdle

ParseNext == ParseRead \/ ParseColumns \/ ParseRow \/ ParseDone

SpecParse == ParseInit /\ [][ParseNext]_vars


\* ------------------------------------------- POParser.parse_multiple_sheets

\* the largest number of sheets of a workbook
MaxSheets == 2

\* "except Exception as e": the error message, and the return
SheetsCaught(exception) ==
    /\ scan' = [scan EXCEPT
                  !.all_messages = Append(@, Msg("excel_error", <<exception>>))]
    /\ pc' = "parse_multiple_sheets:returned"

\* pd.ExcelFile(file): the sheet names
SheetsOpen ==
    /\ pc = "parse_multiple_sheets"
    /\ IF file.format # "xlsx"
       THEN SheetsCaught("unreadable")
       ELSE /\ scan' = [scan EXCEPT
                          !.all_messages =
                              Append(@, Msg("sheets",
                                  <<Join([i \in 1..Len(file.sheets) |->
                                              file.sheets[i].name], ", ")>>))]
            /\ pc' = "parse_multiple_sheets:scan"
    /\ UNCHANGED <<file, options, sku_df, loc, items, messages>>
    /\ UNCHANGED <<fcVars, valVars, histVars, masterVars>>

\* any(any(c.upper() in str(v).upper() for c in SKU_COLUMN_CANDIDATES)
\*     for v in sheet_df.iloc[0].values if pd.notna(v))
FirstRowNamesSku(row) ==
    \E j \in {i \in 1..Len(row) : notna(row[i])} :
        \E c \in 1..Len(SKU_COLUMN_CANDIDATES) :
            Contains(Upper(CellStr(row[j])), Upper(SKU_COLUMN_CANDIDATES[c]))

\* the sheet is parsed: its header row is below the first row, or its first
\* row names a SKU candidate
HasSkuColumn(sheet_df) ==
    find_header_row(sheet_df) > 0 \/ FirstRowNamesSku(sheet_df[1])

\* self.parse(file, filename): the call, without options
CallParse ==
    /\ pc' = "parse"
    /\ options' = DefaultOptions
    /\ loc' = NoLocals
    /\ items' = <<>>
    /\ messages' = <<>>
    /\ UNCHANGED scan

\* the sheet read, in the loop over the sheet names; sheet_df.iloc[0] of a
\* sheet without rows raises IndexError
Scanned(sheet_df) ==
    IF find_header_row(sheet_df) = 0 /\ sheet_df = <<>>
    THEN /\ SheetsCaught("IndexError")
         /\ UNCHANGED <<options, loc, items, messages>>
    ELSE IF HasSkuColumn(sheet_df)
    THEN CallParse
    ELSE /\ scan' = [scan EXCEPT !.idx = @ + 1]
         /\ UNCHANGED <<pc, options, loc, items, messages>>

SheetsScan ==
    /\ pc = "parse_multiple_sheets:scan"
    /\ scan.idx <= Len(file.sheets)
    /\ Scanned(file.sheets[scan.idx].rows)
    /\ UNCHANGED <<file, sku_df>>
    /\ UNCHANGED <<fcVars, valVars, histVars, masterVars>>

\* f"[{sheet_name}] {m}"
Tagged(sheet_name, m) == Msg("sheet", <<sheet_name, m.kind>> \o m.args)

\* parse has returned: its items and messages are taken, and the loop is left
SheetsCollect ==
    /\ pc = "parse:returned"
    /\ scan.caller = "parse_multiple_sheets"
    /\ scan' = [scan EXCEPT
                  !.all_items = @ \o items,
                  !.all_messages =
                      @ \o [i \in 1..Len(messages) |->
                               Tagged(file.sheets[scan.idx].name, messages[i])]]
    /\ pc' = "parse_multiple_sheets:returned"
    /\ UNCHANGED <<file, options, sku_df, loc, items, messages>>
    /\ UNCHANGED <<fcVars, valVars, histVars, masterVars>>

\* no sheet is left
SheetsEnd ==
    /\ pc = "parse_multiple_sheets:scan"
    /\ scan.idx > Len(file.sheets)
    /\ pc' = "parse_multiple_sheets:returned"
    /\ UNCHANGED parseVars
    /\ UNCHANGED <<fcVars, valVars, histVars, masterVars>>

\* the sheets a workbook is made of: notes, an order, an order under a title
\* row, a list whose first header only contains a SKU candidate, and a sheet
\* without rows
SheetKinds ==
    {<<(<<Text("Notes"), Blank>>), <<Text("ship by sea"), Blank>>>>,
     <<(<<Text("SKU"), Text("QTY")>>), <<Text("BIO-001"), Num(100)>>>>,
     <<TitleRow(2), <<Text("SKU ID"), Text("ORDER QTY")>>,
       <<Text("NEW-SKU"), Num(500)>>>>,
     <<(<<Text("SKU LIST"), Text("QTY")>>), <<Text("BIO-002"), Num(30)>>>>,
     <<>>}

Workbooks ==
    {[format |-> "xlsx",
      sheets |-> [i \in 1..Len(kinds) |->
                     [name |-> "Sheet" \o NatToStr(i), rows |-> kinds[i]]]] :
        kinds \in UNION {[1..m -> SheetKinds] : m \in 1..MaxSheets}}

SheetsInit ==
    /\ pc = "parse_multiple_sheets"
    /\ file \in Workbooks \cup {CorruptFile}
    /\ options = DefaultOptions
    /\ sku_df = Loaded
    /\ loc = NoLocals
    /\ items = <<>>
    /\ messages = <<>>
    /\ scan = [NoScan EXCEPT !.caller = "parse_multiple_sheets"]
    /\ FCIdle /\ ValIdle /\ HistIdle /\ MasterIdle

SheetsNext ==
    \/ SheetsOpen \/ SheetsScan \/ SheetsCollect \/ SheetsEnd
    \/ ParseRead \/ ParseColumns \/ ParseRow \/ ParseDone

SpecSheets == SheetsInit /\ [][SheetsNext]_vars

\* ------------------------------------------------ parse: its properties

\* a message that reports a fatal error
Fatal(msgs) == \E i \in 1..Len(msgs) : Severity(msgs[i]) = "fatal"

\* parse has returned, having found the SKU and the quantity column
ReturnedWithColumns ==
    pc = "parse:returned" /\ IsSome(loc.cols.sku) /\ IsSome(loc.cols.qty)

\* the SKU of a row of df, as text
SkuOf(row) == Strip(CellStr(Cell(loc.cols.sku, loc.df_columns, row)))
NonBlankSku(row) == SkuOf(row) \notin {"", "nan"}

\* the name the PO gives a row: the English name, else the Korean name
PoNameOf(row) ==
    Or(PoText(loc.cols.name_en, loc.df_columns, row),
       PoText(loc.cols.name_kr, loc.df_columns, row))

\* C2 (as claimed): with a SKU master that was never loaded, a PO whose SKU
\* and quantity columns resolve and whose one row has a non-blank SKU, the
\* quantity 50 and a name yields exactly one item, from the PO alone, with
\* the PO's name as its description and the quantity 50, and no fatal message.
C2_UnmatchedRowYieldsItem ==
    (/\ ReturnedWithColumns
     /\ sku_df = NeverLoaded
     /\ Len(loc.df_rows) = 1
     /\ NonBlankSku(loc.df_rows[1])
     /\ Cell(loc.cols.qty, loc.df_columns, loc.df_rows[1]) = Num(500)
     /\ PoNameOf(loc.df_rows[1]) # "")
    => /\ Len(items) = 1
       /\ items[1].source = "po_only"
       /\ items[1].description = PoNameOf(loc.df_rows[1])
       /\ items[1].qty = 50
       /\ ~Fatal(messages)

\* the step of the loop that appends an item, the row it reads, and the item
Appends == pc = "parse:rows" /\ Len(items') = Len(items) + 1
CurrentRow == loc.df_rows[loc.idx]
NewItem == items'[Len(items')]

\* the records of the SKU master for a SKU
MasterRows(sku_id) ==
    IF sku_df = None THEN {}
    ELSE {i \in 1..Len(The(sku_df)) : The(sku_df)[i].variant_code = sku_id}
InMaster(sku_id) == MasterRows(sku_id) # {}
MasterDescription(sku_id) ==
    The(sku_df)[CHOOSE i \in MasterRows(sku_id) :
                    \A j \in MasterRows(sku_id) : i <= j].variant_full_name

\* C27: every item parse emits is tagged "master" or "po_only", and
\* "master" exactly when the SKU of its row is the code of a record of the
\* SKU master; a "master" item has the normalized barcode, the manufacturer
\* and the status of such a record, a "po_only" item has the barcode of the
\* PO row and an empty manufacturer and status.
C27_TagFollowsTheMaster ==
    [][Appends =>
          /\ NewItem.source \in {"master", "po_only"}
          /\ NewItem.source = "master" <=> InMaster(SkuOf(CurrentRow))
          /\ NewItem.source = "master" =>
                \E i \in MasterRows(SkuOf(CurrentRow)) :
                    /\ NewItem.barcode = BarcodeClean(The(sku_df)[i])
                    /\ NewItem.manufacturer = The(sku_df)[i].manufacturer
                    /\ NewItem.variant_status = The(sku_df)[i].variant_status
          /\ NewItem.source = "po_only" =>
                /\ NewItem.barcode =
                       PoText(loc.cols.barcode, loc.df_columns, CurrentRow)
                /\ NewItem.manufacturer = ""
                /\ NewItem.variant_status = ""]_vars

\* C27, its case: a parse that emitted an item of each tag, the matched one
\* with the manufacturer of the master
C27_OneOfEachTag ==
    /\ pc = "parse:returned"
    /\ \E i, j \in 1..Len(items) :
          /\ items[i].source = "master" /\ items[i].manufacturer # ""
          /\ items[i].barcode = "123"
          /\ items[j].source = "po_only" /\ items[j].barcode = "999"

\* the first item came from the first row of df
FirstRowGaveAnItem == pc = "parse:rows" /\ loc.idx = 2 /\ Len(items) = 1

\* the description of an unmatched row: the English name, else the Korean
\* name, else the literal built from the SKU
UnmatchedDescription(row) == Or(PoNameOf(row), Unregistered(SkuOf(row)))

CurrencyCell(row) ==
    IF IsSome(loc.cols.currency)
    THEN Upper(Strip(CellStr(Cell(loc.cols.currency, loc.df_columns, row))))
    ELSE ""
BlankCurrency(row) == CurrencyCell(row) \in {"", "NAN"}

\* the currency of the header of a column, None without the column
HeaderCurrency(col) ==
    IF IsSome(col) THEN detect_currency_from_column(The(col)) ELSE None

\* the currency the headers name: the amount header's, else the price header's
InferredCurrency ==
    IF IsSome(HeaderCurrency(loc.cols.amount))
    THEN HeaderCurrency(loc.cols.amount)
    ELSE HeaderCurrency(loc.cols.price)

\* C6 (as claimed, with prices included): the currency of every item is its
\* currency cell when there is a currency column and the cell is not blank;
\* otherwise the currency named by the amount header, else by the price
\* header, else none.
C6_BlankCellFallsBackToHeaders ==
    [][(Appends /\ options.include_price) =>
          NewItem.currency =
              IF ~BlankCurrency(CurrentRow) THEN Some(CurrencyCell(CurrentRow))
              ELSE InferredCurrency]_vars

\* C6 (amended): with prices left out the currency of every item is none.
\* Otherwise it is the currency cell (trimmed, in capitals) when there is a
\* currency column and the cell is not blank; none when there is a currency
\* column and the cell is blank; and without a currency column the currency
\* named by the amount header, else by the price header, else none.
C6_CurrencyPriority ==
    [][Appends =>
          NewItem.currency =
              IF ~options.include_price THEN None
              ELSE IF ~BlankCurrency(CurrentRow) THEN Some(CurrencyCell(CurrentRow))
              ELSE IF IsSome(loc.cols.currency) THEN None
              ELSE InferredCurrency]_vars

\* C6, its case: a blank cell in a currency column, under an amount header
\* that names a currency, gave the item no currency
C6_BlankCellUnderCurrencyHeader ==
    /\ FirstRowGaveAnItem
    /\ options.include_price
    /\ IsSome(loc.cols.currency)
    /\ BlankCurrency(loc.df_rows[1])
    /\ IsSome(InferredCurrency)
    /\ items[1].currency = None

\* the HS code column of the sheet, whatever the options
HsColumn ==
    find_column([i \in 1..Len(loc.df_columns) |-> loc.df_columns[i].s],
                HS_CODE_COLUMN_CANDIDATES)

\* the HS code cell of a row: "" when blank or without the column
HsCell(row) ==
    IF IsSome(HsColumn)
    THEN NanToEmpty(CellStr(Cell(HsColumn, loc.df_columns, row)))
    ELSE ""

\* the HS code the SKU master records for a SKU: it records none
MasterHsCode(sku_id) == ""

C8_FatalMeansNoItems ==
    (pc = "parse:returned" /\ Fatal(messages)) => items = <<>>

\* the quantity of a cell as claimed: the number, cut to an integer; zero for
\* a blank cell and for any text that does not denote a finite number
ClaimedInt(f) ==
    IF f = None THEN 0
    ELSE IF The(f).k # "fin" THEN 0
    ELSE Truncate(The(f).t)
ClaimedQty(cell) == IF ~notna(cell) THEN 0 ELSE ClaimedInt(ToFloat(cell))

\* the rows of df that are to give an item: a SKU, and a positive quantity
KeptRows ==
    {i \in 1..Len(loc.df_rows) :
        /\ NonBlankSku(loc.df_rows[i])
        /\ ClaimedQty(Cell(loc.cols.qty, loc.df_columns, loc.df_rows[i])) > 0}

\* C9 (as claimed): whatever the quantity, price and amount cells hold, no
\* row keeps the other rows from being extracted, and a cell that is no
\* finite number counts as zero: with the columns found and a SKU master
\* loaded, every row with a SKU and a positive quantity gives an item, and
\* every price and amount is finite.
C9_CoercionNeverAborts ==
    (ReturnedWithColumns /\ sku_df # NeverLoaded)
    => /\ Len(items) = Cardinality(KeptRows)
       /\ \A i \in 1..Len(items) :
              items[i].unit_price.k = "fin" /\ items[i].amount.k = "fin"


\* a step of the loop over the rows, and the quantity cell of its row
ReadsRow == pc = "parse:rows" /\ loc.idx <= Len(loc.df_rows)
QtyCell == Cell(loc.cols.qty, loc.df_columns, CurrentRow)

\* the whole part of a number held in tenths, towards zero: the integer n
\* of the sign of the number with 10 |n| <= |tenths| < 10 (|n| + 1)
WholePart(tenths) ==
    CHOOSE n \in (0 - Abs(tenths))..Abs(tenths) :
        /\ 10 * Abs(n) <= Abs(tenths) /\ Abs(tenths) < 10 * (Abs(n) + 1)
        /\ (tenths >= 0 => n >= 0) /\ (tenths <= 0 => n <= 0)

\* the cell has a quantity as claimed: it is blank, or a number, or a text
\* that is no number, or that parses to a float other than an infinity
\* (which has no whole part)
HasQuantity(cell) ==
    ~notna(cell) \/ ToFloat(cell) = None \/ The(ToFloat(cell)).k # "inf"

\* the quantity as claimed: the whole part of the float the cell parses to,
\* 0 for a blank cell and for a cell that is no number
Coerced(cell) ==
    IF ~notna(cell) THEN 0
    ELSE IF ToFloat(cell) = None THEN 0
    ELSE IF The(ToFloat(cell)).k # "fin" THEN 0
    ELSE WholePart(The(ToFloat(cell)).t)

\* C20: every item of a parse result has a non-blank sku_id and an integer
\* qty > 0; a row with a blank SKU cell is skipped; the quantity is the float
\* of the cell cut to an integer, 0 for a blank or non-numeric cell; a row
\* whose quantity is <= 0 is dropped without a message.
C20_ItemsHaveSkuAndQuantity ==
    [][ReadsRow =>
          /\ \A i \in 1..Len(items') :
                /\ Strip(items'[i].sku_id) \notin {"", "nan"}
                /\ items'[i].qty \in Int /\ items'[i].qty > 0
          /\ ~NonBlankSku(CurrentRow) =>
                (items' = items /\ messages' = messages /\ pc' = pc)
          /\ (NonBlankSku(CurrentRow) /\ HasQuantity(QtyCell)
                /\ Coerced(QtyCell) <= 0) =>
                (items' = items /\ messages' = messages /\ pc' = pc)
          /\ Appends =>
                /\ NonBlankSku(CurrentRow)
                /\ NewItem.sku_id = SkuOf(CurrentRow)
                /\ NewItem.qty = Coerced(QtyCell)]_vars

\* (BIO-001, 10) and (BIO-001, -5) gave exactly one item, without error
C20_OneKeptOneDropped ==
    /\ ReturnedWithColumns /\ ~Fatal(messages)
    /\ Len(loc.df_rows) = 2
    /\ Cell(loc.cols.qty, loc.df_columns, loc.df_rows[1]) = Num(100)
    /\ Cell(loc.cols.qty, loc.df_columns, loc.df_rows[2]) = Num(-50)
    /\ Len(items) = 1
    /\ items[1].qty = 10

\* parse has returned after resolving the columns of a sheet whose column
\* labels are all text
ReturnedAfterResolution ==
    /\ pc = "parse:returned"
    /\ file.format = "xlsx"
    /\ \A i \in 1..Len(loc.df_columns) : loc.df_columns[i].k = "text"

\* no column label is, or contains, a candidate of the list
Unresolved(cands) ==
    \A i \in 1..Len(loc.df_columns), c \in 1..Len(cands) :
        ~Contains(Strip(Upper(loc.df_columns[i].s)), Strip(Upper(cands[c])))

\* the kinds of the messages returned
Kinds == {messages[i].kind : i \in 1..Len(messages)}
Warned(kind) ==
    \E i \in 1..Len(messages) :
        messages[i].kind = kind /\ Severity(messages[i]) = "warning"

\* C25: when the SKU column or the quantity column is unresolved, parse
\* returns no item and a warning that names the column (the SKU column, or
\* the quantity column when the SKU column is found), without a fatal
\* message and without reading a row; when both are resolved no such
\* warning is returned, whatever optional columns are missing.
C25_MissingColumnIsWarning ==
    ReturnedAfterResolution =>
        /\ Unresolved(SKU_COLUMN_CANDIDATES) =>
              (Warned("sku_missing") /\ items = <<>> /\ ~Fatal(messages)
                  /\ loc.idx = 1 /\ loc.not_found_skus = <<>>)
        /\ (~Unresolved(SKU_COLUMN_CANDIDATES) /\ Unresolved(QTY_COLUMN_CANDIDATES)) =>
              (Warned("qty_missing") /\ items = <<>> /\ ~Fatal(messages)
                  /\ loc.idx = 1 /\ loc.not_found_skus = <<>>)
        /\ (~Unresolved(SKU_COLUMN_CANDIDATES) /\ ~Unresolved(QTY_COLUMN_CANDIDATES)) =>
              Kinds \cap {"sku_missing", "qty_missing"} = {}

\* parse returned for want of a quantity column, on a sheet with a SKU
\* column and a data row
C25_QuantityColumnMissing ==
    /\ ReturnedAfterResolution
    /\ ~Unresolved(SKU_COLUMN_CANDIDATES)
    /\ Unresolved(QTY_COLUMN_CANDIDATES)
    /\ Len(loc.df_rows) >= 1

\* the SKUs of the items that are not in the SKU master, in the order of the
\* items
PoOnly(it) == it.source = "po_only"
UnmatchedSkus ==
    [i \in 1..Len(SelectSeq(items, PoOnly)) |-> SelectSeq(items, PoOnly)[i].sku_id]

RECURSIVE Distinct(_)
\* a sequence without the repetitions of its members: each at its first place
Distinct(seq) ==
    IF seq = <<>> THEN <<>>
    ELSE Distinct(SubSeq(seq, 1, Len(seq) - 1))
         \o (IF \E i \in 1..(Len(seq) - 1) : seq[i] = seq[Len(seq)]
             THEN <<>> ELSE <<seq[Len(seq)]>>)

\* the summary of a list of SKUs as claimed: the first five, and the number
\* of the others
SummaryOf(skus) ==
    Join(SubSeq(skus, 1, IF Len(skus) < 5 THEN Len(skus) ELSE 5), ", ")
    \o (IF Len(skus) > 5 THEN " #C678 " \o NatToStr(Len(skus) - 5) \o "#AC1C"
        ELSE "")

\* the texts of the messages about SKUs missing from the SKU master
NotFoundTexts ==
    {messages[i].args[1] : i \in {j \in 1..Len(messages) : messages[j].kind = "not_found"}}

\* C11 (as claimed): the message about the SKUs missing from the SKU master
\* names each of them once, however many rows carry it: it lists the first
\* five distinct SKUs, followed by the number of the other distinct SKUs when
\* there are more than five.
C11_UnmatchedSummaryIsDeduplicated ==
    (ReturnedWithColumns /\ ~Fatal(messages) /\ UnmatchedSkus # <<>>)
    => NotFoundTexts = {SummaryOf(Distinct(UnmatchedSkus))}

\* ------------------------------ parse_multiple_sheets: its properties

RECURSIVE ItemsFrom(_, _, _, _, _, _)
\* the items the loop of parse extracts from the rows of df, up to the row
\* that raises
ItemsAfter(out, cols, df_columns, detected, opts, df, rows) ==
    IF out.kind = "raise" THEN <<>>
    ELSE (IF out.kind = "item" THEN <<The(out.item)>> ELSE <<>>)
         \o ItemsFrom(cols, df_columns, detected, opts, df, Tail(rows))
ItemsFrom(cols, df_columns, detected, opts, df, rows) ==
    IF rows = <<>> THEN <<>>
    ELSE ItemsAfter(RowOutcome(cols, df_columns, detected, opts, df, rows[1]),
                    cols, df_columns, detected, opts, df, rows)

\* the items parse extracts from a sheet, given the columns it resolves
ItemsWith(cols, df_columns, df_rows, opts, df) ==
    IF cols.sku = None \/ cols.qty = None THEN <<>>
    ELSE ItemsFrom(cols, df_columns, DetectedCurrency(cols), opts, df, df_rows)

\* the items parse extracts from a sheet whose header row is known
ItemsBelow(raw, header_row, opts, df) ==
    IF \E i \in 1..Len(DfColumns(raw, header_row)) :
           DfColumns(raw, header_row)[i].k # "text"
    THEN <<>>
    ELSE ItemsWith(ResolveColumns([i \in 1..Len(DfColumns(raw, header_row)) |->
                                      DfColumns(raw, header_row)[i].s], opts),
                   DfColumns(raw, header_row), DfRows(raw, header_row), opts, df)

\* the items parse extracts from a sheet
ItemsOfSheet(raw, opts, df) == ItemsBelow(raw, find_header_row(raw), opts, df)

\* the sheets with a SKU column, by their place in the workbook
SheetsWithSku ==
    {k \in 1..Len(file.sheets) :
        file.sheets[k].rows # <<>> /\ HasSkuColumn(file.sheets[k].rows)}
FirstSheetWithSku == CHOOSE k \in SheetsWithSku : \A j \in SheetsWithSku : k <= j

\* C10 (as claimed): the items parse_multiple_sheets returns are those of the
\* first sheet, in the order of the workbook, that has a SKU column.
C10_ItemsOfFirstSheetWithSku ==
    (/\ pc = "parse_multiple_sheets:returned"
     /\ file.format = "xlsx"
     /\ SheetsWithSku # {}
     /\ \A j \in 1..FirstSheetWithSku : file.sheets[j].rows # <<>>)
    => scan.all_items =
           ItemsOfSheet(file.sheets[FirstSheetWithSku].rows, DefaultOptions, sku_df)


\* ------------------------------------------- SKUMaster: loads and reads

\* the largest number of loads in a run, and the largest limit of a search
MaxLoads == 2
MaxLimit == 2

\* encodings = [encoding, 'utf-8', 'cp949', 'euc-kr'], with the default
\* encoding 'utf-8' that app.py calls load_from_bytes with
Encodings == <<"utf-8", "utf-8", "cp949", "euc-kr">>

\* self._source after a load
SourceTag(kind) ==
    IF kind = "bytes" THEN "upload"
    ELSE IF kind = "gsheet" THEN "gsheet"
    ELSE "dataframe"

\* what is given to a load: the table the source holds, the encodings that
\* decode it (load_from_bytes) and whether it can be read (load_from_gsheet)
LoadInput(kind, table, decodes, readable) ==
    [kind |-> kind, table |-> table, decodes |-> decodes, readable |-> readable]
NoInput == LoadInput("", <<>>, {}, FALSE)

NoLoad == [pc |-> "idle", n |-> 0, input |-> NoInput, enc |-> 1,
           before |-> [df |-> None, source |-> ""]]

\* a call that only reads, before it is made
NoCall == [pc |-> "idle", op |-> "", key |-> "", limit |-> 0, ref |-> "own",
           own |-> None, seen |-> None,
           ret |-> [raised |-> FALSE, info |-> None, infos |-> <<>>]]

\* load_from_bytes / load_from_gsheet / load_from_dataframe is called
LoadCall(input) ==
    /\ pc = "master"
    /\ load.pc \in {"idle", "returned", "raised"}
    /\ load.n < MaxLoads
    /\ load' = [pc |-> "read", n |-> load.n + 1, input |-> input, enc |-> 1,
                before |-> [df |-> sku_df, source |-> sku_source]]
    /\ UNCHANGED <<pc, sku_df, sku_source, call>>
    /\ UNCHANGED <<fcVars, valVars, histVars, poVars>>

\* a failed read that leaves no table behind
AfterFailedReadCleared(df) == None

\* the table after a read that raised: the exception leaves the call before
\* self._df is assigned
AfterFailedRead(df) == df

\* "self._df = ...": the name is bound to the new table; a reader that holds
\* the table bound before keeps it
Assigned(table) ==
    /\ sku_df' = Some(table)
    /\ call' = IF call.pc = "loaded" /\ call.ref = "self._df"
               THEN [call EXCEPT !.ref = "own", !.own = sku_df]
               ELSE call
    /\ load' = [load EXCEPT !.pc = "assigned"]

\* the read raises, and the load with it
ReadRaised ==
    /\ sku_df' = AfterFailedRead(sku_df)
    /\ load' = [load EXCEPT !.pc = "raised"]
    /\ UNCHANGED call

\* the source is read: df.copy(), conn.read(...), or pd.read_csv in the
\* loop over the encodings (UnicodeDecodeError: the next encoding; after the
\* last one, ValueError)
LoadRead ==
    /\ pc = "master"
    /\ load.pc = "read"
    /\ IF load.input.kind = "dataframe" THEN Assigned(load.input.table)
       ELSE IF load.input.kind = "gsheet"
            THEN (IF load.input.readable THEN Assigned(load.input.table)
                  ELSE ReadRaised)
       ELSE IF Encodings[load.enc] \in load.input.decodes
            THEN Assigned(load.input.table)
       ELSE IF load.enc < Len(Encodings)
            THEN /\ load' = [load EXCEPT !.enc = @ + 1]
                 /\ UNCHANGED <<sku_df, call>>
       ELSE ReadRaised
    /\ UNCHANGED <<pc, sku_source>>
    /\ UNCHANGED <<fcVars, valVars, histVars, poVars>>

\* self._process_barcode(): the column is added to the table in place
LoadProcess ==
    /\ pc = "master"
    /\ load.pc = "assigned"
    /\ sku_df' = Some(process_barcode(The(sku_df)))
    /\ load' = [load EXCEPT !.pc = "processed"]
    /\ UNCHANGED <<pc, sku_source, call>>
    /\ UNCHANGED <<fcVars, valVars, histVars, poVars>>

\* self._source = ..., and the return
LoadTag ==
    /\ pc = "master"
    /\ load.pc = "processed"
    /\ sku_source' = SourceTag(load.input.kind)
    /\ load' = [load EXCEPT !.pc = "returned"]
    /\ UNCHANGED <<pc, sku_df, call>>
    /\ UNCHANGED <<fcVars, valVars, histVars, poVars>>

\* a reader calls search, get_by_sku_id or get_by_barcode: df =
\* self._load_data() is self._df, or an empty DataFrame of its own when
\* nothing is loaded
ReadCall(op, key, limit) ==
    /\ pc = "master"
    /\ call.pc \in {"idle", "returned"}
    /\ call' = [NoCall EXCEPT !.pc = "loaded", !.op = op, !.key = key,
                              !.limit = limit,
                              !.ref = IF sku_df = None THEN "own" ELSE "self._df"]
    /\ UNCHANGED <<pc, sku_df, sku_source, load>>
    /\ UNCHANGED <<fcVars, valVars, histVars, poVars>>

\* what the reader returns from the table it holds
Answer(op, df, key, limit) ==
    IF op = "search"
    THEN [raised |-> search(df, key, limit).raised, info |-> None,
          infos |-> search(df, key, limit).infos]
    ELSE IF op = "get_by_sku_id"
    THEN [raised |-> get_by_sku_id(df, key).raised,
          info |-> get_by_sku_id(df, key).info, infos |-> <<>>]
    ELSE [raised |-> get_by_barcode(df, key).raised,
          info |-> get_by_barcode(df, key).info, infos |-> <<>>]

Answered(df) ==
    /\ call' = [call EXCEPT !.pc = "returned", !.seen = df,
                            !.ret = Answer(call.op, df, call.key, call.limit)]

\* the reader computes its result and returns
ReadReturn ==
    /\ pc = "master"
    /\ call.pc = "loaded"
    /\ Answered(IF call.ref = "self._df" THEN sku_df ELSE call.own)
    /\ UNCHANGED <<pc, sku_df, sku_source, load>>
    /\ UNCHANGED <<fcVars, valVars, histVars, poVars>>


\* a row of a source, before the clean barcode is added
SourceRow(variant_code, barcode, variant_name, product_name) ==
    [variant_code |-> variant_code, barcode |-> barcode,
     variant_name |-> variant_name, product_name |-> product_name,
     variant_full_name |-> product_name \o " " \o variant_name,
     manufacturer |-> "Biodance", variant_status |-> "active"]

\* the tables the sources hold: one product; and a row without SKU code
\* ahead of a product of the same name
SourceTables ==
    {<<SourceRow("BIO-003", Text("0880"), "Mask", "Collagen")>>,
     <<SourceRow("", Blank, "Pads mini", "Toner"),
       SourceRow("BIO-004", Num(4560), "Pads", "Toner")>>}

LoadInputs ==
    {LoadInput("dataframe", t, {}, TRUE) : t \in SourceTables}
    \cup {LoadInput("gsheet", t, {}, r) : t \in SourceTables, r \in BOOLEAN}
    \cup {LoadInput("bytes", t, d, TRUE) :
              t \in SourceTables, d \in {{}, {"cp949", "euc-kr"}, {"utf-8"}}}

SkuKeys == {"BIO-001", "BIO-009"}
BarcodeKeys == {"123", " 880 ", "999"}
Queries == {"toner", " BIO ", "", "456"}

MasterInit ==
    /\ pc = "master"
    /\ \/ sku_df = NeverLoaded /\ sku_source = ""
       \/ sku_df = Loaded /\ sku_source = "upload"
    /\ load = NoLoad
    /\ call = NoCall
    /\ FCIdle /\ ValIdle /\ HistIdle /\ PoIdle

MasterNext ==
    \/ \E input \in LoadInputs : LoadCall(input)
    \/ LoadRead \/ LoadProcess \/ LoadTag
    \/ \E key \in SkuKeys : ReadCall("get_by_sku_id", key, 0)
    \/ \E key \in BarcodeKeys : ReadCall("get_by_barcode", key, 0)
    \/ \E key \in Queries, limit \in 1..MaxLimit : ReadCall("search", key, limit)
    \/ ReadReturn

SpecMaster == MasterInit /\ [][MasterNext]_vars


\* ------------------------------------------------ properties of SKUMaster

\* the reader has returned from an exact lookup
LookedUp == call.pc = "returned" /\ call.op \in {"get_by_sku_id", "get_by_barcode"}

\* the rows of the table the reader saw (none when nothing is loaded)
RowsSeen == IF call.seen = None THEN <<>> ELSE The(call.seen)

\* the key of the lookup is the SKU code, or the normalized barcode, of a
\* row of the table
KeyPresent ==
    \E i \in 1..Len(RowsSeen) :
        IF call.op = "get_by_sku_id" THEN RowsSeen[i].variant_code = call.key
        ELSE convert_barcode(RowsSeen[i].barcode) = Strip(call.key)

\* C12: in every state of the table (never loaded, or loaded with any
\* rows), get_by_sku_id and get_by_barcode of a key that is not present
\* return None and do not raise.
C12_LookupMissReturnsNone ==
    (LookedUp /\ ~KeyPresent) => (~call.ret.raised /\ call.ret.info = None)

\* the reader has returned from a search with a query that is not blank,
\* on a loaded table that has its normalized barcodes
SearchedLoaded ==
    /\ call.pc = "returned" /\ call.op = "search"
    /\ Strip(call.key) # ""
    /\ call.seen # None
    /\ HasColumn(RowsSeen, "barcode_clean")

\* the row has a SKU code, and its SKU code, normalized barcode, short name
\* or product name contains the query, whatever the case
Qualifies(row, query) ==
    /\ row.variant_code # ""
    /\ \/ Contains(Lower(row.variant_code), Lower(query))
       \/ Contains(Lower(row.barcode_clean), Lower(query))
       \/ Contains(Lower(row.variant_name), Lower(query))
       \/ Contains(Lower(row.product_name), Lower(query))

Qualifying == {i \in 1..Len(RowsSeen) : Qualifies(RowsSeen[i], Strip(call.key))}

\* C13: search(query, limit) on a loaded table returns, in the order of the
\* table, the first limit rows among those that have a SKU code and match
\* the query: never a row without SKU code, never more than limit rows, and
\* every qualifying row when there are at most limit of them.
C13_SearchReturnsFirstQualifying ==
    SearchedLoaded =>
        /\ ~call.ret.raised
        /\ call.ret.infos = InfosOf(RowsSeen, HeadOf(Qualifying, call.limit), 1)

\* C14: under any interleaving of a load with a search or a lookup, the
\* reader sees the table of before the load or the table of the load with
\* its normalized barcodes, never a table without them.
C14_ReaderSeesNormalizedTable ==
    call.pc = "returned" =>
        (call.seen = None \/ HasColumn(RowsSeen, "barcode_clean"))

\* C15: when a load ends by raising, the table with its normalized barcodes
\* and the source tag are what they were before the call; when it returns,
\* the table is the one of the source and the tag is the tag of the load.
C15_FailedLoadLeavesTable ==
    /\ load.pc = "raised" =>
          (sku_df = load.before.df /\ sku_source = load.before.source)
    /\ load.pc = "returned" =>
          /\ sku_df = Some(process_barcode(load.input.table))
          /\ sku_source = SourceTag(load.input.kind)

\* a load of an upload that no encoding decodes has raised, on a master
\* that had a table
C15_FailedLoadOverTable ==
    /\ load.pc = "raised"
    /\ load.input.kind = "bytes"
    /\ load.before.df # None


\* ------------------- render_invoice_items: the "CI 생성" button, generate

\* Amounts are held in hundredths of a cent (15000 is 1.50) and the tax
\* rate in percent (10 is 0.10), so that the sums and the product by the
\* rate are exact.

\* a line item of the session
LineItem(sku_id, description, qty, unit_price, is_foc) ==
    [sku_id |-> sku_id, description |-> description, qty |-> qty,
     unit_price |-> unit_price, is_foc |-> is_foc]

\* the line items the session may hold: two priced items, two free of
\* charge (one with a price recorded), one without description (a PO item
\* that has none) and one without quantity
SessionItems ==
    {LineItem("BIO-001", "Toner Pads", 2, 15000, FALSE),
     LineItem("BIO-003", "Collagen Mask", 3, 102500, FALSE),
     LineItem("BIO-001", "Toner Pads", 2, 15000, TRUE),
     LineItem("BIO-003", "Collagen Mask", 5, 0, TRUE),
     LineItem("BIO-002", "", 1, 10000, FALSE),
     LineItem("BIO-004", "Serum", 0, 10000, FALSE)}

SessionItemLists == UNION {[1..n -> SessionItems] : n \in 0..MaxItems}

\* what the form holds when the item list is shown
Forms ==
    [invoice_no : {""},
     invoice_date : {Some("2025-01-01")},
     staff_email : {"", "staff@example.com"},
     receiver : {None, Some([company_name |-> "SokoGlam", address |-> "New York"])},
     currency : {"KRW", "USD", "JPY"},
     items : SessionItemLists,
     tax_rate : {0, 10}]

\* line_total of the charged-for mutant: the FOC flag is not looked at
LineTotalCharged(item) == item.qty * item.unit_price

\* line_total = 0 if item.is_foc else item.qty * item.unit_price
LineTotal(item) == IF item.is_foc THEN 0 ELSE item.qty * item.unit_price

RECURSIVE Subtotal(_, _)
\* the loop over data.items: subtotal += line_total, from 0
Subtotal(item_list, acc) ==
    IF item_list = <<>> THEN acc
    ELSE Subtotal(Tail(item_list), acc + LineTotal(item_list[1]))

\* tax_amount = subtotal * data.tax_rate
TaxAmount(subtotal, tax_rate) == (subtotal * tax_rate) \div 100

\* the workbook generate builds, by the amounts of its summary
Summary(subtotal, tax_amount) ==
    [subtotal |-> subtotal, tax_amount |-> tax_amount,
     total_declaration |-> subtotal + tax_amount]
BuiltWorkbook(data) ==
    Summary(Subtotal(data.items, 0),
            TaxAmount(Subtotal(data.items, 0), data.tax_rate))

\* CIGenerator.generate: ValueError (None) when validate reports errors,
\* before Workbook() is called; the workbook otherwise
generate(data) ==
    IF Len(ValidateErrors(data)) # 0 THEN None ELSE Some(BuiltWorkbook(data))

\* generate_disabled: the button is disabled while the form's own checks
\* fail
generate_disabled(form) ==
    \/ form.staff_email = ""
    \/ form.receiver = None
    \/ The(form.receiver).company_name = ""
    \/ The(form.receiver).address = ""
    \/ form.items = <<>>

RECURSIVE total_amount(_, _)
\* render_invoice_items, the loop over st.session_state.invoice_items:
\* total_amount += item.qty * new_price, from 0, for every item shown
total_amount(item_list, acc) ==
    IF item_list = <<>> THEN acc
    ELSE total_amount(Tail(item_list),
                      acc + item_list[1].qty * item_list[1].unit_price)

\* the dict given to add_invoice_history, with the total of the item list
InvoiceInfo(customer_code, date, seq, total) ==
    HistoryEntry(customer_code, date, seq) @@ [total |-> total]

\* a flow that records the invoice whatever generate did
RecordedAlways(h, entry, wb) == add_invoice_history(h, entry)

\* data_store.add_invoice_history(...) follows wb = generator.generate(...)
\* in the try block: it is not reached when generate raises
Recorded(h, entry, wb) == IF wb = None THEN h ELSE add_invoice_history(h, entry)

\* InvoiceData(..., invoice_no=invoice_no, ...)
InvoiceData(form, invoice_no) == [form EXCEPT !.invoice_no = invoice_no]

GenInit ==
    /\ pc = "items"
    /\ draft \in Forms
    /\ valid = FALSE
    /\ errors = <<>>
    /\ book = None
    /\ history \in {<<>>, <<HistoryEntry("sk", EarlierDate, 1)>>}
    /\ issued = [i \in 1..Len(history) |-> IssuedRecord(history[i], 1)]
    /\ gens = 0
    /\ flows = <<>>
    /\ FCIdle /\ ParseIdle /\ MasterIdle

\* the outcome of the click, from the entry to record and the workbook
Generated(entry, seq, wb) ==
    /\ book' = wb
    /\ history' = Recorded(history, entry, wb)
    /\ issued' = IF wb = None THEN issued
                 ELSE Append(issued, IssuedRecord(entry, seq))
    /\ pc' = IF wb = None THEN "items:error" ELSE "items:download"

\* the click on "CI 생성": the next sequence, the invoice number, the
\* InvoiceData, generate, and the history entry when generate has returned
ClickGenerate(customer_code, date) ==
    /\ pc = "items"
    /\ ~generate_disabled(draft)
    /\ draft' = InvoiceData(draft,
                    generate_invoice_number(CodeOrXX(customer_code), date,
                        get_next_sequence(history, CodeOrXX(customer_code), date)))
    /\ errors' = ValidateErrors(draft')
    /\ valid' = (Len(errors') = 0)
    /\ Generated(InvoiceInfo(customer_code, date,
                     get_next_sequence(history, CodeOrXX(customer_code), date),
                     total_amount(draft.items, 0)),
                 get_next_sequence(history, CodeOrXX(customer_code), date),
                 generate(draft'))
    /\ gens' = gens + 1
    /\ UNCHANGED flows
    /\ UNCHANGED <<fcVars, parseVars, masterVars>>

GenNext ==
    \E customer_code \in CustomerCodes, date \in InvoiceDates :
        ClickGenerate(customer_code, date)

SpecGenerate == GenInit /\ [][GenNext]_vars

\* C18: when validate reports a violation, generate raises before any
\* workbook is made, and the flow appends no entry to the invoice history
\* for the attempt: the history changes only in a step in which generate
\* has returned a workbook.
C18_NoOutputOnValidationFailure ==
    [][/\ (pc' # pc /\ errors' # <<>>) => (book' = None /\ history' = history)
       /\ history' # history => (book' # None /\ errors' = <<>>)]_vars

\* a click on a form that validate rejects, over a history with an entry
C18_RejectedClick ==
    /\ pc = "items:error"
    /\ errors # <<>>
    /\ history # <<>>

RECURSIVE SumOf(_, _)
\* the sum of qty x unit_price over the items at the places
SumOf(item_list, places) ==
    IF places = {} THEN 0
    ELSE LET i == CHOOSE j \in places : TRUE IN
         item_list[i].qty * item_list[i].unit_price
         + SumOf(item_list, places \ {i})

\* C19: the subtotal of the workbook is the sum of qty x unit_price over
\* the items that are not FOC (0 when all are FOC), the tax is the subtotal
\* by the tax rate, and the declared total is subtotal plus tax.
C19_TotalsOfNonFocItems ==
    book # None =>
        /\ The(book).subtotal =
               SumOf(draft.items,
                     {i \in 1..Len(draft.items) : ~draft.items[i].is_foc})
        /\ ((\A i \in 1..Len(draft.items) : draft.items[i].is_foc)
               => The(book).subtotal = 0)
        /\ The(book).tax_amount * 100 = The(book).subtotal * draft.tax_rate
        /\ The(book).total_declaration
               = The(book).subtotal + The(book).tax_amount

\* a workbook of a FOC item with a recorded price beside a priced item, at
\* a tax rate above 0
C19_FocBesidePriced ==
    /\ book # None
    /\ draft.tax_rate > 0
    /\ \E i \in 1..Len(draft.items) :
           draft.items[i].is_foc /\ draft.items[i].unit_price > 0
    /\ \E i \in 1..Len(draft.items) : ~draft.items[i].is_foc

\* C29: the total recorded in the invoice history for an invoice is the
\* subtotal that generate puts on it: the sum of qty x unit_price over the
\* items that are not FOC, also when a FOC item has a unit price above 0.
C29_RecordedTotalIsSubtotal ==
    pc = "items:download" =>
        /\ history[Len(history)].total = The(book).subtotal
        /\ history[Len(history)].total =
               SumOf(draft.items,
                     {i \in 1..Len(draft.items) : ~draft.items[i].is_foc})


\* ------------------------- parse: the reads of a byte buffer (steps 1, 3)

\* How the reader engines answer a workbook, whatever the header asked
\* for: openpyxl reads it, raises ValueError, or raises another exception
\* (a buffer that is no zip archive); xlrd reads it or raises.
EngineAnswers ==
    [openpyxl : {"ok", "ValueError", "BadZipFile"},
     xlrd : {"ok", "XLRDError", "ValueError"}]

\* where the buffer stands
Positions == {"start", "inside", "end"}

\* an operation made on the buffer
SeekOp == [op |-> "seek", engine |-> "", from |-> ""]
ReadOp(engine, from) == [op |-> "read", engine |-> engine, from |-> from]

BufferInit ==
    /\ pc = "read:openpyxl"
    /\ given \in EngineAnswers
    /\ stream \in [pos : Positions, ops : {<<>>}]
    /\ returned = <<>>
    /\ columns = <<>> /\ candidates = <<>> /\ result = None
    /\ ValIdle /\ HistIdle /\ ParseIdle /\ MasterIdle

\* the engine of the read at a place of parse, and the place after it when
\* the read succeeds and when openpyxl raises ValueError
EngineAt(place) ==
    IF place \in {"read:openpyxl", "reread:openpyxl"} THEN "openpyxl" ELSE "xlrd"
AfterRead(place) ==
    IF place \in {"read:openpyxl", "read:xlrd"} THEN "reread:seek" ELSE "columns"
AfterValueError(place) ==
    IF place = "read:openpyxl" THEN "read:seek" ELSE "reread:fallback"

\* file.seek(0): before the xlrd attempt of step 1, before the read of step
\* 3, and before the xlrd attempt of step 3
BufferSeek ==
    /\ pc \in {"read:seek", "reread:seek", "reread:fallback"}
    /\ stream' = [pos |-> "start", ops |-> Append(stream.ops, SeekOp)]
    /\ pc' = IF pc = "read:seek" THEN "read:xlrd"
             ELSE IF pc = "reread:seek" THEN "reread:openpyxl"
             ELSE "reread:xlrd"
    /\ UNCHANGED <<columns, candidates, result, given, returned>>
    /\ UNCHANGED <<valVars, histVars, parseVars, masterVars>>

\* pd.read_excel(file, header=..., engine=...): the read, which leaves the
\* buffer somewhere past its start, and its outcome
BufferRead ==
    /\ pc \in {"read:openpyxl", "read:xlrd", "reread:openpyxl", "reread:xlrd"}
    /\ \E pos \in {"inside", "end"} :
           stream' = [pos |-> pos,
                      ops |-> Append(stream.ops, ReadOp(EngineAt(pc), stream.pos))]
    /\ pc' = IF given[EngineAt(pc)] = "ok" THEN AfterRead(pc)
             ELSE IF EngineAt(pc) = "openpyxl" /\ given.openpyxl = "ValueError"
                  THEN AfterValueError(pc)
             ELSE "caught"
    /\ UNCHANGED <<columns, candidates, result, given, returned>>
    /\ UNCHANGED <<valVars, histVars, parseVars, masterVars>>

BufferNext == BufferSeek \/ BufferRead

SpecBuffer == BufferInit /\ [][BufferNext]_vars

\* C24: every read attempt on the buffer comes right after a seek to its
\* start, whatever the position the buffer was given at; and once openpyxl
\* has rejected the workbook, parse does not end without an attempt with
\* xlrd.
C24_EveryReadFollowsSeek ==
    /\ \A i \in 1..Len(stream.ops) :
          stream.ops[i].op = "read" =>
              (i > 1 /\ stream.ops[i - 1].op = "seek" /\ stream.ops[i].from = "start")
    /\ (pc \in {"columns", "caught"} /\ given.openpyxl # "ok") =>
          \E i \in 1..Len(stream.ops) : stream.ops[i].engine = "xlrd"

=============================================================================
